---------------------------- MODULE Spec2Model ----------------------------
(***************************************************************************)
(* Billboard admin console: device commands over MQTT, the MQTT broker    *)
(* wrapper, the token store, the GitHub request retry, the upload         *)
(* workflow and the logo manifest.                                         *)
(*                                                                         *)
(* The services share no state, so each group has a specification of its  *)
(* own over the module's variables:                                        *)
(*   SpecDevice    DeviceControlService, UpdateService, DeviceResetService *)
(*   SpecManifest  addLogoToManifest                                       *)
(*   SpecApi       GitHubUploadService.makeApiRequest, one call            *)
(*   SpecUpload    initialize, uploadLogo, LogoSyncService                 *)
(*   SpecWorkflow  initialize, completeUploadWorkflow                      *)
(*   SpecBroker    MqttBroker and the clients it creates                   *)
(*   SpecToken     TokenManager over localStorage                          *)
(*   SpecDeviceUpdate  DeviceUpdateService                                 *)
(*   SpecSettings  DisplaySettingsService                                  *)
(*   SpecCompletion  UpdateService with delayed completion (timers)        *)
(***************************************************************************)
EXTENDS Integers, Sequences, FiniteSets, Bags, TLC

(***************************************************************************)
(* Bounds of the model.                                                    *)
(***************************************************************************)
MaxTime == 2
MaxCalls == 2
MaxLogos == 3
MaxPriority == 2
MaxRetries == 4
MaxFiles == 2
MaxInits == 1
MaxClients == 2
MaxAttempts == 12
MaxTokenLen == 2
MaxUpdates == 2
MaxTimers == 2

VARIABLES
  \* ---- device services (SpecDevice) ----
  service,               \* the class of the service object of this run
  mqttPresent,           \* this.mqtt / window.MqttClient is an object
  mqttConnected,         \* its connected flag
  updateInProgress,      \* this.updateInProgress
  currentUpdateVersion,  \* this.currentUpdateVersion
  updateStartTime,       \* this.updateStartTime
  resetInProgress,       \* DeviceResetService.resetInProgress
  calls,                 \* bag of calls suspended at an await
  published,             \* commands handed to publish on its/billboard/commands
  now,                   \* Date.now()
  last,                  \* what the latest step of the service did
  \* ---- logo manifest (SpecManifest) ----
  manifest,              \* the manifest addLogoToManifest returned last
  added,                 \* the logoMetadata it was given, and what it met
  \* ---- makeApiRequest (SpecApi) ----
  apiPc,                 \* "idle", "fetch" (awaiting fetch), "delay", "done"
  retries,               \* the retries argument
  attempt,               \* the loop variable
  fetches,               \* fetch calls made
  delayMs,               \* the delay being awaited
  apiResponses,          \* what each fetch got, in order
  apiResult,             \* what the call returned or threw
  \* ---- GitHubService / GitHubUploadService (SpecUpload, SpecWorkflow) ----
  ghService,             \* the class of the service object of this run
  githubGiven,           \* LogoSyncService.github is an object
  token,                 \* this.token
  isAuthenticated,       \* this.isAuthenticated
  initCalls,             \* bag of initialize calls awaiting testAuthentication
  wf,                    \* the completeUploadWorkflow call
  upLast,                \* what the latest step of the service did
  \* ---- MqttBroker (SpecBroker) ----
  client,                \* this.client: 0 for null, else the client's number
  mqttClients,           \* every client mqtt.connect made so far, by number
  connected,             \* this.connected
  connectionStatus,      \* this.connectionStatus
  statusError,           \* the error of the latest updateStatus
  reconnectAttempts,     \* this.reconnectAttempts
  isReconnecting,        \* this.isReconnecting
  sinceConnect,          \* whether connect() / disconnect() ran, and which last
  reconnectPeriod,       \* the reconnectPeriod option of every client in use
  brLast,                \* what the latest step of the broker did
  \* ---- TokenManager (SpecToken) ----
  storage,               \* localStorage's item under "github-auth-data"
  machineId,             \* this.machineId, as char codes
  tmNow,                 \* the clock, in days
  storedArgs,            \* the arguments of the storeToken call still in force
  tmLast,                \* what the latest call of the token manager did
  \* ---- DeviceUpdateService (SpecDeviceUpdate) ----
  lastDetectedVersion,   \* this.lastDetectedVersion
  forceInProgress,       \* this.updateInProgress of DeviceUpdateService
  progressTimers,        \* progressInterval and progressTimeout are set
  forcePc,               \* where the forceUpdate call stands
  clientConnected,       \* window.MqttClient is there and connected
  updating,              \* force_update was sent and the update has not ended
  duLast,                \* what the latest step of the service did
  \* ---- DisplaySettingsService (SpecSettings) ----
  displayMode,           \* this.currentSettings.displayMode
  savedMode,             \* displayMode of the localStorage item, if any
  displayModeEl,         \* the page's displayMode element: its kind
  elValue,               \* and its value
  resetPending,          \* a resetToDefaults call awaits its confirmation
  dsLast,                \* the latest step of the service
  \* ---- UpdateService with delayed completion (SpecCompletion) ----
  ucInProgress,          \* this.updateInProgress
  ucVersion,             \* this.currentUpdateVersion
  ucConnected,           \* window.MqttClient is there and connected
  ucUpdates,             \* how many triggerUpdate calls were accepted so far
  ucPublishes,           \* the accepted updates whose publish is awaited
  ucTimers,              \* the completion timers pending, in starting order
  ucSuccesses,           \* 'success' events counted per accepted update
  ucLast                 \* the latest step of the service

deviceVars == <<service, mqttPresent, mqttConnected, updateInProgress,
                currentUpdateVersion, updateStartTime, resetInProgress,
                calls, published, now, last>>

manifestVars == <<manifest, added>>

apiVars == <<apiPc, retries, attempt, fetches, delayMs, apiResponses, apiResult>>

uploadVars == <<ghService, githubGiven, token, isAuthenticated, initCalls, wf,
                upLast>>

brokerVars == <<client, mqttClients, connected, connectionStatus, statusError,
                reconnectAttempts, isReconnecting, sinceConnect,
                reconnectPeriod, brLast>>

tokenVars == <<storage, machineId, tmNow, storedArgs, tmLast>>

deviceUpdateVars == <<lastDetectedVersion, forceInProgress, progressTimers, forcePc,
                      clientConnected, updating, duLast>>

settingsVars == <<displayMode, savedMode, displayModeEl, elValue, resetPending,
                  dsLast>>

completionVars == <<ucInProgress, ucVersion, ucConnected, ucUpdates,
                    ucPublishes, ucTimers, ucSuccesses, ucLast>>

vars ==
  <<deviceVars, manifestVars, apiVars, uploadVars,
    brokerVars, tokenVars, deviceUpdateVars, settingsVars,
    completionVars>>

\* what the steps of one group leave alone
otherThanDevice ==
  <<manifestVars, apiVars, uploadVars, brokerVars,
    tokenVars, deviceUpdateVars, settingsVars, completionVars>>
otherThanManifest ==
  <<deviceVars, apiVars, uploadVars, brokerVars,
    tokenVars, deviceUpdateVars, settingsVars, completionVars>>
otherThanApi ==
  <<deviceVars, manifestVars, uploadVars, brokerVars,
    tokenVars, deviceUpdateVars, settingsVars, completionVars>>
otherThanUpload ==
  <<deviceVars, manifestVars, apiVars, brokerVars,
    tokenVars, deviceUpdateVars, settingsVars, completionVars>>
otherThanBroker ==
  <<deviceVars, manifestVars, apiVars, uploadVars,
    tokenVars, deviceUpdateVars, settingsVars, completionVars>>
otherThanToken ==
  <<deviceVars, manifestVars, apiVars, uploadVars,
    brokerVars, deviceUpdateVars, settingsVars, completionVars>>
otherThanDeviceUpdate ==
  <<deviceVars, manifestVars, apiVars, uploadVars,
    brokerVars, tokenVars, settingsVars, completionVars>>
otherThanSettings ==
  <<deviceVars, manifestVars, apiVars, uploadVars,
    brokerVars, tokenVars, deviceUpdateVars, completionVars>>
otherThanCompletion ==
  <<deviceVars, manifestVars, apiVars, uploadVars,
    brokerVars, tokenVars, deviceUpdateVars, settingsVars>>

(***************************************************************************)
(* Values.                                                                 *)
(***************************************************************************)
Null == "null"
NoTime == -1
Versions == {"1.0.1", "1.0.2"}
BlankVersions == {"", " "}
Services == {"DeviceControlService", "UpdateService", "DeviceResetService"}
CommandsTopic == "its/billboard/commands"

\* What a step reports: op is the method, inv the connection state when the
\* call was invoked, chk the outcome of the connection check the step ran
\* ("none" when it ran none), result what the call returned, threw or toasted,
\* emitted the error code handed to the listeners, pub whether the step handed
\* a command to publish, busy whether updateInProgress held when it began.
Report(op, inv, chk, result, emitted, pub, busy) ==
  [op |-> op, inv |-> inv, chk |-> chk, result |-> result,
   emitted |-> emitted, pub |-> pub, busy |-> busy]

NoReport == Report("none", FALSE, "none", "none", "none", FALSE, FALSE)

NoDeviceInit ==
  /\ service = "none"
  /\ mqttPresent = FALSE
  /\ mqttConnected = FALSE
  /\ updateInProgress = FALSE
  /\ currentUpdateVersion = Null
  /\ updateStartTime = NoTime
  /\ resetInProgress = FALSE
  /\ calls = EmptyBag
  /\ published = {}
  /\ now = 0
  /\ last = NoReport

NoLogo == [id |-> "none", priority |-> 0, githubSha |-> "none"]

NoManifestInit ==
  /\ manifest = [logos |-> <<>>, version |-> 0, lastModifiedBy |-> "none"]
  /\ added = [logo |-> NoLogo, hadId |-> FALSE, lenBefore |-> 0]

NoApiInit ==
  /\ apiPc = "idle"
  /\ retries = 0
  /\ attempt = 0
  /\ fetches = 0
  /\ delayMs = 0
  /\ apiResponses = <<>>
  /\ apiResult = "none"

\* the completeUploadWorkflow call: n files, i of them attempted, the
\* logoMetadata of the uploaded ones, the number that failed, the manifest
\* PUTs and workflow POSTs issued, and what the call returned or threw
NoWorkflow ==
  [pc |-> "idle", n |-> 0, i |-> 0, results |-> <<>>, errors |-> 0,
   logos |-> <<>>, manifestPuts |-> 0, manifestOk |-> FALSE,
   workflowPosts |-> 0, result |-> "none"]

\* what a step of the GitHub services reports: the method, isAuthenticated
\* as it began, what it returned or threw, whether it issued a GitHub request
UpReport(op, authed, result, requested) ==
  [op |-> op, authed |-> authed, result |-> result, requested |-> requested]

NoUploadInit ==
  /\ ghService = "none"
  /\ githubGiven = FALSE
  /\ token = Null
  /\ isAuthenticated = FALSE
  /\ initCalls = EmptyBag
  /\ wf = NoWorkflow
  /\ upLast = UpReport("none", FALSE, "none", FALSE)

\* what a step of the broker reports: the method or event handler, whether
\* this.client was set as it began, what it returned or rejected with, and
\* whether it handed anything to a client to send
BrReport(op, hadClient, result, sent) ==
  [op |-> op, hadClient |-> hadClient, result |-> result, sent |-> sent]

\* the MqttBroker constructor
BrokerConstructed ==
  /\ client = 0
  /\ mqttClients = [c \in 1..MaxClients |-> "none"]
  /\ connected = FALSE
  /\ connectionStatus = "disconnected"
  /\ statusError = Null
  /\ reconnectAttempts = 0
  /\ isReconnecting = FALSE
  /\ sinceConnect = "never"
  /\ reconnectPeriod = [c \in 1..MaxClients |-> 0]
  /\ brLast = BrReport("none", FALSE, "none", FALSE)

NoBrokerInit == BrokerConstructed

\* localStorage.getItem(this.storageKey) === null
NoItem == [kind |-> "none"]

\* deobfuscateToken's null; getStoredToken's null
NullToken == <<-1>>
NoReturn == [token |-> NullToken, userLogin |-> Null, storedAt |-> NoTime]

\* no storeToken call in force
NoArgs == [set |-> FALSE, token |-> <<>>, userLogin |-> Null, machineId |-> <<>>,
           at |-> NoTime]

\* what a call of the token manager reports: the method, what it returned,
\* what getStoredToken found (an item of this machine, not expired), and the
\* storeToken arguments in force as getStoredToken began
TmReport(op, returned, sameMachine, notExpired, afterStore) ==
  [op |-> op, returned |-> returned, sameMachine |-> sameMachine,
   notExpired |-> notExpired, afterStore |-> afterStore]

NoTokenInit ==
  /\ storage = NoItem
  /\ machineId = <<>>
  /\ tmNow = 0
  /\ storedArgs = NoArgs
  /\ tmLast = TmReport("none", NoReturn, FALSE, FALSE, NoArgs)

\* what a step of DeviceUpdateService reports: the method, what it returned
\* (for isUpdateInProgress), and whether an update was under way
DuReport(op, returned, underWay) ==
  [op |-> op, returned |-> returned, underWay |-> underWay]

NoDeviceUpdateInit ==
  /\ lastDetectedVersion = Null
  /\ forceInProgress = FALSE
  /\ progressTimers = FALSE
  /\ forcePc = "idle"
  /\ clientConnected = FALSE
  /\ updating = FALSE
  /\ duLast = DuReport("none", FALSE, FALSE)

\* no item under "billboard-settings"; text that is not JSON
NotSaved == "not saved"
NotJson == "not json"

NoSettingsInit ==
  /\ displayMode = "loop"
  /\ savedMode = NotSaved
  /\ displayModeEl = "missing"
  /\ elValue = ""
  /\ resetPending = FALSE
  /\ dsLast = "none"

\* What a step of the UpdateService with delayed completion reports: op is
\* the method or callback, of the accepted update the step belongs to (0 for
\* none), current the update in progress when the step began (0 for none),
\* emitted the event handed to the listeners.
UcReport(op, of, current, emitted) ==
  [op |-> op, of |-> of, current |-> current, emitted |-> emitted]

NoCompletionInit ==
  /\ ucInProgress = FALSE
  /\ ucVersion = "null"
  /\ ucConnected = FALSE
  /\ ucUpdates = 0
  /\ ucPublishes = {}
  /\ ucTimers = <<>>
  /\ ucSuccesses = <<>>
  /\ ucLast = UcReport("none", 0, 0, "none")

(***************************************************************************)
(* The connection test of every command: !mqtt || !mqtt.connected.         *)
(***************************************************************************)
MqttNotConnected_NoFlag(present, isConnected) == ~present

MqttNotConnected(present, isConnected) == ~present \/ ~isConnected

\* if (this.updateInProgress): an update is already running
AlreadyInProgress_Never(flag) == FALSE

AlreadyInProgress(flag) == flag

\* version is missing or blank: !version || version.trim() === ""
IsBlank(version) == version \in BlankVersions

Suspend(call) == calls' = calls (+) SetToBag({call})
Resume(call) == calls' = calls (-) SetToBag({call})
CanCall == BagCardinality(calls) < MaxCalls

Call(op, phase, inv) == [op |-> op, phase |-> phase, inv |-> inv]

\* the connection state as it is, for the record of a step
Connected == mqttPresent /\ mqttConnected

Command(action) ==
  [topic |-> CommandsTopic, action |-> action, source |-> service,
   connected |-> Connected]

(***************************************************************************)
(* The environment: the MQTT client connects and drops, the global client  *)
(* script loads, time passes.                                              *)
(***************************************************************************)
MqttConnects ==
  /\ service \in Services
  /\ mqttPresent /\ ~mqttConnected
  /\ mqttConnected' = TRUE
  /\ UNCHANGED <<service, mqttPresent, updateInProgress, currentUpdateVersion,
                 updateStartTime, resetInProgress, calls, published, now, last>>
  /\ UNCHANGED otherThanDevice

MqttDrops ==
  /\ service \in Services
  /\ mqttPresent /\ mqttConnected
  /\ mqttConnected' = FALSE
  /\ UNCHANGED <<service, mqttPresent, updateInProgress, currentUpdateVersion,
                 updateStartTime, resetInProgress, calls, published, now, last>>
  /\ UNCHANGED otherThanDevice

\* window.MqttClient is a global set by another script; the broker handed to
\* DeviceControlService's constructor never changes.
MqttClientLoads ==
  /\ service \in Services \ {"DeviceControlService"}
  /\ ~mqttPresent
  /\ mqttPresent' = TRUE
  /\ UNCHANGED <<service, mqttConnected, updateInProgress, currentUpdateVersion,
                 updateStartTime, resetInProgress, calls, published, now, last>>
  /\ UNCHANGED otherThanDevice

Tick ==
  /\ service \in Services
  /\ now < MaxTime
  /\ now' = now + 1
  /\ UNCHANGED <<service, mqttPresent, mqttConnected, updateInProgress,
                 currentUpdateVersion, updateStartTime, resetInProgress, calls,
                 published, last>>
  /\ UNCHANGED otherThanDevice

(***************************************************************************)
(* DeviceControlService                                                    *)
(***************************************************************************)
DC_triggerUpdate(version) ==
  /\ service = "DeviceControlService"
  /\ IF MqttNotConnected(mqttPresent, mqttConnected)
     THEN /\ last' = Report("triggerUpdate", Connected, "down",
                            "throw: MQTT not connected", "none", FALSE,
                            updateInProgress)
          /\ UNCHANGED <<updateInProgress, currentUpdateVersion,
                         updateStartTime, calls, published>>
     ELSE IF AlreadyInProgress(updateInProgress)
     THEN /\ last' = Report("triggerUpdate", Connected, "ok",
                            "throw: Update already in progress", "none", FALSE,
                            updateInProgress)
          /\ UNCHANGED <<updateInProgress, currentUpdateVersion,
                         updateStartTime, calls, published>>
     ELSE /\ CanCall
          /\ updateInProgress' = TRUE
          /\ currentUpdateVersion' = version
          /\ updateStartTime' = now
          /\ published' = published \cup {Command("force_update")}
          /\ Suspend(Call("triggerUpdate", "publish", Connected))
          /\ last' = Report("triggerUpdate", Connected, "ok", "pending", "none",
                            TRUE, updateInProgress)
  /\ UNCHANGED <<service, mqttPresent, mqttConnected, resetInProgress, now>>
  /\ UNCHANGED otherThanDevice

\* the publish promise of a triggerUpdate settles: return true, or the catch
DC_triggerUpdateSettles(ok) ==
  /\ service = "DeviceControlService"
  /\ \E c \in BagToSet(calls) :
       /\ c.op = "triggerUpdate"
       /\ Resume(c)
       /\ IF ok
          THEN /\ last' = Report("triggerUpdate.settled", c.inv, "none", "true",
                                 "none", FALSE, updateInProgress)
               /\ UNCHANGED updateInProgress
          ELSE /\ updateInProgress' = FALSE
               /\ last' = Report("triggerUpdate.settled", c.inv, "none",
                                 "throw: publish failed", "none", FALSE,
                                 updateInProgress)
  /\ UNCHANGED <<service, mqttPresent, mqttConnected, currentUpdateVersion,
                 updateStartTime, resetInProgress, published, now>>
  /\ UNCHANGED otherThanDevice

DC_triggerReset ==
  /\ service = "DeviceControlService"
  /\ IF MqttNotConnected(mqttPresent, mqttConnected)
     THEN /\ last' = Report("triggerReset", Connected, "down",
                            "throw: MQTT not connected", "none", FALSE,
                            updateInProgress)
          /\ UNCHANGED <<calls, published>>
     ELSE /\ CanCall
          /\ published' = published \cup {Command("reset_app")}
          /\ Suspend(Call("triggerReset", "publish", Connected))
          /\ last' = Report("triggerReset", Connected, "ok", "pending", "none", TRUE,
                            updateInProgress)
  /\ UNCHANGED <<service, mqttPresent, mqttConnected, updateInProgress,
                 currentUpdateVersion, updateStartTime, resetInProgress, now>>
  /\ UNCHANGED otherThanDevice

DC_triggerResetSettles(ok) ==
  /\ service = "DeviceControlService"
  /\ \E c \in BagToSet(calls) :
       /\ c.op = "triggerReset"
       /\ Resume(c)
       /\ last' = Report("triggerReset.settled", c.inv, "none",
                         IF ok THEN "true" ELSE "throw: publish failed", "none",
                         FALSE, updateInProgress)
  /\ UNCHANGED <<service, mqttPresent, mqttConnected, updateInProgress,
                 currentUpdateVersion, updateStartTime, resetInProgress,
                 published, now>>
  /\ UNCHANGED otherThanDevice

DC_handleUpdateStatus(status) ==
  /\ service = "DeviceControlService"
  /\ updateInProgress
  /\ IF status = "error"
     THEN /\ updateInProgress' = FALSE
          /\ currentUpdateVersion' = Null
     ELSE UNCHANGED <<updateInProgress, currentUpdateVersion>>
  /\ last' = Report("handleUpdateStatus", FALSE, "none", status, "none", FALSE,
                    TRUE)
  /\ UNCHANGED <<service, mqttPresent, mqttConnected, updateStartTime,
                 resetInProgress, calls, published, now>>
  /\ UNCHANGED otherThanDevice

DC_handleResetStatus(status) ==
  /\ service = "DeviceControlService"
  /\ IF status = "reset_success"
     THEN /\ updateInProgress' = FALSE
          /\ currentUpdateVersion' = Null
     ELSE UNCHANGED <<updateInProgress, currentUpdateVersion>>
  /\ last' = Report("handleResetStatus", FALSE, "none", status, "none", FALSE,
                    updateInProgress)
  /\ UNCHANGED <<service, mqttPresent, mqttConnected, updateStartTime,
                 resetInProgress, calls, published, now>>
  /\ UNCHANGED otherThanDevice

DC_cancel ==
  /\ service = "DeviceControlService"
  /\ updateInProgress' = FALSE
  /\ currentUpdateVersion' = Null
  /\ last' = Report("cancel", FALSE, "none", "none", "none", FALSE,
                    updateInProgress)
  /\ UNCHANGED <<service, mqttPresent, mqttConnected, updateStartTime,
                 resetInProgress, calls, published, now>>
  /\ UNCHANGED otherThanDevice

(***************************************************************************)
(* UpdateService                                                           *)
(***************************************************************************)
US_triggerUpdate(version) ==
  /\ service = "UpdateService"
  /\ IF IsBlank(version)
     THEN /\ last' = Report("triggerUpdate", Connected, "none", "false",
                            "INVALID_VERSION", FALSE, updateInProgress)
          /\ UNCHANGED <<updateInProgress, currentUpdateVersion,
                         updateStartTime, calls, published>>
     ELSE IF AlreadyInProgress(updateInProgress)
     THEN /\ last' = Report("triggerUpdate", Connected, "none", "false",
                            "UPDATE_IN_PROGRESS", FALSE, updateInProgress)
          /\ UNCHANGED <<updateInProgress, currentUpdateVersion,
                         updateStartTime, calls, published>>
     ELSE IF MqttNotConnected(mqttPresent, mqttConnected)
     THEN \* the throw inside the try: the catch clears the flag again
          /\ updateInProgress' = FALSE
          /\ currentUpdateVersion' = version
          /\ updateStartTime' = now
          /\ last' = Report("triggerUpdate", Connected, "down", "false",
                            "TRIGGER_FAILED", FALSE, updateInProgress)
          /\ UNCHANGED <<calls, published>>
     ELSE /\ CanCall
          /\ updateInProgress' = TRUE
          /\ currentUpdateVersion' = version
          /\ updateStartTime' = now
          /\ published' = published \cup {Command("force_update")}
          /\ Suspend(Call("triggerUpdate", "publish", Connected))
          /\ last' = Report("triggerUpdate", Connected, "ok", "pending", "none",
                            TRUE, updateInProgress)
  /\ UNCHANGED <<service, mqttPresent, mqttConnected, resetInProgress, now>>
  /\ UNCHANGED otherThanDevice

US_triggerUpdateSettles(ok) ==
  /\ service = "UpdateService"
  /\ \E c \in BagToSet(calls) :
       /\ c.op = "triggerUpdate"
       /\ Resume(c)
       /\ IF ok
          THEN /\ last' = Report("triggerUpdate.settled", c.inv, "none", "true",
                                 "none", FALSE, updateInProgress)
               /\ UNCHANGED updateInProgress
          ELSE /\ updateInProgress' = FALSE
               /\ last' = Report("triggerUpdate.settled", c.inv, "none",
                                 "false", "TRIGGER_FAILED", FALSE,
                                 updateInProgress)
  /\ UNCHANGED <<service, mqttPresent, mqttConnected, currentUpdateVersion,
                 updateStartTime, resetInProgress, published, now>>
  /\ UNCHANGED otherThanDevice

US_handleUpdateStatus(status) ==
  /\ service = "UpdateService"
  /\ updateInProgress
  /\ IF status \in {"error", "no_updates"}
     THEN /\ updateInProgress' = FALSE
          /\ last' = Report("handleUpdateStatus", FALSE, "none", status,
                            IF status = "error" THEN "UPDATE_ERROR"
                                                ELSE "NO_UPDATE",
                            FALSE, TRUE)
     ELSE /\ UNCHANGED updateInProgress
          /\ last' = Report("handleUpdateStatus", FALSE, "none", status,
                            "none", FALSE, TRUE)
  /\ UNCHANGED <<service, mqttPresent, mqttConnected, currentUpdateVersion,
                 updateStartTime, resetInProgress, calls, published, now>>
  /\ UNCHANGED otherThanDevice

US_handleResetStatus(status) ==
  /\ service = "UpdateService"
  /\ updateInProgress
  /\ IF status = "reset_success"
     THEN /\ updateInProgress' = FALSE
          /\ currentUpdateVersion' = Null
          /\ last' = Report("handleResetStatus", FALSE, "none", status,
                            "success", FALSE, TRUE)
     ELSE /\ UNCHANGED <<updateInProgress, currentUpdateVersion>>
          /\ last' = Report("handleResetStatus", FALSE, "none", status, "none",
                            FALSE, TRUE)
  /\ UNCHANGED <<service, mqttPresent, mqttConnected, updateStartTime,
                 resetInProgress, calls, published, now>>
  /\ UNCHANGED otherThanDevice

US_cancel ==
  /\ service = "UpdateService"
  /\ updateInProgress' = FALSE
  /\ currentUpdateVersion' = Null
  /\ last' = Report("cancel", FALSE, "none", "none", "none", FALSE,
                    updateInProgress)
  /\ UNCHANGED <<service, mqttPresent, mqttConnected, updateStartTime,
                 resetInProgress, calls, published, now>>
  /\ UNCHANGED otherThanDevice

(***************************************************************************)
(* DeviceResetService                                                      *)
(***************************************************************************)
\* resetApp up to its first await: the button lookup, then the confirmation
RS_resetApp(buttonFound) ==
  /\ service = "DeviceResetService"
  /\ IF ~buttonFound
     THEN /\ last' = Report("resetApp", Connected, "none",
                            "return: button not found", "none", FALSE, FALSE)
          /\ UNCHANGED calls
     ELSE /\ CanCall
          /\ Suspend(Call("resetApp", "confirm", Connected))
          /\ last' = Report("resetApp", Connected, "none", "pending", "none",
                            FALSE, FALSE)
  /\ UNCHANGED <<service, mqttPresent, mqttConnected, updateInProgress,
                 currentUpdateVersion, updateStartTime, resetInProgress,
                 published, now>>
  /\ UNCHANGED otherThanDevice

\* the confirmation dialog answers: the try block up to the await of publish
RS_resetAppConfirmation(confirmed) ==
  /\ service = "DeviceResetService"
  /\ \E c \in BagToSet(calls) :
       /\ c.op = "resetApp" /\ c.phase = "confirm"
       /\ IF ~confirmed
          THEN /\ Resume(c)
               /\ last' = Report("resetApp.confirmation", c.inv, "none",
                                 "return: cancelled by user", "none", FALSE,
                                 FALSE)
               /\ UNCHANGED <<resetInProgress, published>>
          ELSE IF MqttNotConnected(mqttPresent, mqttConnected)
          THEN \* throw, catch (error toast), finally
               /\ Resume(c)
               /\ resetInProgress' = FALSE
               /\ last' = Report("resetApp.confirmation", c.inv, "down",
                                 "toast error: MQTT not connected", "none",
                                 FALSE, FALSE)
               /\ UNCHANGED published
          ELSE /\ calls' = (calls (-) SetToBag({c}))
                             (+) SetToBag({Call("resetApp", "publish", c.inv)})
               /\ resetInProgress' = TRUE
               /\ published' = published \cup {Command("reset_app")}
               /\ last' = Report("resetApp.confirmation", c.inv, "ok",
                                 "pending", "none", TRUE, FALSE)
  /\ UNCHANGED <<service, mqttPresent, mqttConnected, updateInProgress,
                 currentUpdateVersion, updateStartTime, now>>
  /\ UNCHANGED otherThanDevice

\* publishAppReset / publish settles: success toast, or the catch; finally
RS_resetAppSettles(ok) ==
  /\ service = "DeviceResetService"
  /\ \E c \in BagToSet(calls) :
       /\ c.op = "resetApp" /\ c.phase = "publish"
       /\ Resume(c)
       /\ resetInProgress' = FALSE
       /\ last' = Report("resetApp.settled", c.inv, "none",
                         IF ok THEN "toast success"
                               ELSE "toast error: publish failed",
                         "none", FALSE, FALSE)
  /\ UNCHANGED <<service, mqttPresent, mqttConnected, updateInProgress,
                 currentUpdateVersion, updateStartTime, published, now>>
  /\ UNCHANGED otherThanDevice

RS_forceReset ==
  /\ service = "DeviceResetService"
  /\ IF MqttNotConnected(mqttPresent, mqttConnected)
     THEN /\ resetInProgress' = FALSE
          /\ last' = Report("forceReset", Connected, "down",
                            "toast error: MQTT not connected", "none", FALSE,
                            FALSE)
          /\ UNCHANGED <<calls, published>>
     ELSE /\ CanCall
          /\ resetInProgress' = TRUE
          /\ published' = published \cup {Command("reset_app")}
          /\ Suspend(Call("forceReset", "publish", Connected))
          /\ last' = Report("forceReset", Connected, "ok", "pending", "none",
                            TRUE, FALSE)
  /\ UNCHANGED <<service, mqttPresent, mqttConnected, updateInProgress,
                 currentUpdateVersion, updateStartTime, now>>
  /\ UNCHANGED otherThanDevice

RS_forceResetSettles(ok) ==
  /\ service = "DeviceResetService"
  /\ \E c \in BagToSet(calls) :
       /\ c.op = "forceReset"
       /\ Resume(c)
       /\ resetInProgress' = FALSE
       /\ last' = Report("forceReset.settled", c.inv, "none",
                         IF ok THEN "toast success"
                               ELSE "toast error: publish failed",
                         "none", FALSE, FALSE)
  /\ UNCHANGED <<service, mqttPresent, mqttConnected, updateInProgress,
                 currentUpdateVersion, updateStartTime, published, now>>
  /\ UNCHANGED otherThanDevice

DeviceInit ==
  /\ NoCompletionInit
  /\ NoSettingsInit
  /\ NoDeviceUpdateInit
  /\ NoTokenInit
  /\ NoBrokerInit
  /\ NoUploadInit
  /\ NoManifestInit
  /\ NoApiInit
  /\ service \in Services
  /\ mqttPresent \in BOOLEAN
  /\ mqttConnected = FALSE
  /\ updateInProgress = FALSE
  /\ currentUpdateVersion = Null
  /\ updateStartTime = NoTime
  /\ resetInProgress = FALSE
  /\ calls = EmptyBag
  /\ published = {}
  /\ now = 0
  /\ last = NoReport

DeviceNext ==
  \/ MqttConnects
  \/ MqttDrops
  \/ MqttClientLoads
  \/ Tick
  \/ \E v \in Versions : DC_triggerUpdate(v)
  \/ \E ok \in BOOLEAN : DC_triggerUpdateSettles(ok)
  \/ DC_triggerReset
  \/ \E ok \in BOOLEAN : DC_triggerResetSettles(ok)
  \/ \E s \in {"downloading", "update_success", "error"} : DC_handleUpdateStatus(s)
  \/ \E s \in {"reset_success", "resetting"} : DC_handleResetStatus(s)
  \/ DC_cancel
  \/ \E v \in Versions \cup BlankVersions : US_triggerUpdate(v)
  \/ \E ok \in BOOLEAN : US_triggerUpdateSettles(ok)
  \/ \E s \in {"downloading", "update_success", "error", "no_updates"} :
       US_handleUpdateStatus(s)
  \/ \E s \in {"reset_success", "resetting"} : US_handleResetStatus(s)
  \/ US_cancel
  \/ \E found \in BOOLEAN : RS_resetApp(found)
  \/ \E confirmed \in BOOLEAN : RS_resetAppConfirmation(confirmed)
  \/ \E ok \in BOOLEAN : RS_resetAppSettles(ok)
  \/ RS_forceReset
  \/ \E ok \in BOOLEAN : RS_forceResetSettles(ok)

(***************************************************************************)
(* Claims about the device services.                                       *)
(***************************************************************************)
CommandSteps ==
  {"triggerUpdate", "triggerUpdate.settled", "triggerReset",
   "triggerReset.settled", "resetApp", "resetApp.confirmation",
   "resetApp.settled", "forceReset", "forceReset.settled"}

\* the call ended without a command sent and without reporting success
NotCarriedOut ==
  {"throw: MQTT not connected", "false", "toast error: MQTT not connected",
   "return: button not found", "return: cancelled by user"}

NotConnectedFailure ==
  CASE service = "DeviceControlService" -> "throw: MQTT not connected"
    [] service = "UpdateService" -> "false"
    [] service = "DeviceResetService" -> "toast error: MQTT not connected"
    [] OTHER -> "none"

UpdateState == <<updateInProgress, currentUpdateVersion, updateStartTime>>

\* C2 as stated: a triggerUpdate made while updateInProgress is true is
\* rejected with 'Update already in progress' (DeviceControlService) or with
\* code UPDATE_IN_PROGRESS and false (UpdateService), publishes nothing and
\* leaves updateInProgress, currentUpdateVersion and updateStartTime unchanged.
C2_RejectedAsInProgress ==
  [][(last'.op = "triggerUpdate" /\ last'.busy) =>
       /\ UNCHANGED <<UpdateState, published, calls>>
       /\ ~last'.pub
       /\ service = "DeviceControlService" =>
            last'.result = "throw: Update already in progress"
       /\ service = "UpdateService" =>
            last'.result = "false" /\ last'.emitted = "UPDATE_IN_PROGRESS"]_vars

\* C2 (amended): a triggerUpdate made while updateInProgress is true, also
\* while an earlier triggerUpdate still awaits its publish, is rejected,
\* publishes nothing and leaves updateInProgress, currentUpdateVersion and
\* updateStartTime unchanged. DeviceControlService throws 'Update already in
\* progress' when MQTT is connected and 'MQTT not connected' otherwise (that
\* test comes first); UpdateService returns false after emitting
\* UPDATE_IN_PROGRESS, or INVALID_VERSION for a blank version (tested first).
C2_SecondUpdateRejected ==
  [][(last'.op = "triggerUpdate" /\ last'.busy) =>
       /\ UNCHANGED <<UpdateState, published, calls>>
       /\ ~last'.pub
       /\ service = "DeviceControlService" =>
            last'.result = IF last'.inv
                           THEN "throw: Update already in progress"
                           ELSE "throw: MQTT not connected"
       /\ service = "UpdateService" =>
            /\ last'.result = "false"
            /\ last'.emitted \in {"UPDATE_IN_PROGRESS", "INVALID_VERSION"}]_vars

\* a second triggerUpdate was rejected while the first awaits its publish
C2_Witness ==
  /\ last.op = "triggerUpdate" /\ last.busy
  /\ last.result \in {"throw: Update already in progress", "false"}
  /\ updateInProgress
  /\ \E c \in BagToSet(calls) : c.op = "triggerUpdate"

SpecDevice == DeviceInit /\ [][DeviceNext]_vars

(***************************************************************************)
(* The logo manifest: GitHubService.addLogoToManifest, and its copy in     *)
(* GitHubUploadService.                                                    *)
(***************************************************************************)
LogoIds == {"logo-a", "logo-b", "logo-c"}
Shas == {"sha1", "sha2"}
Logos == [id : LogoIds, priority : 1..MaxPriority, githubSha : Shas]

Ids(logos) == {logos[i].id : i \in 1..Len(logos)}
UniqueIds(logos) ==
  \A i, j \in 1..Len(logos) : logos[i].id = logos[j].id => i = j

\* logos.filter((logo) => logo.id !== logoMetadata.id)
FilterOut_KeepsAll(logos, id) == logos

FilterOut(logos, id) == SelectSeq(logos, LAMBDA logo : logo.id # id)

\* one element put into a list sorted by priority, behind its equals
RECURSIVE InsertByPriority(_, _)
InsertByPriority(sorted, logo) ==
  IF sorted = <<>> THEN <<logo>>
  ELSE IF Head(sorted).priority <= logo.priority
       THEN <<Head(sorted)>> \o InsertByPriority(Tail(sorted), logo)
       ELSE <<logo>> \o sorted

\* logos.sort((a, b) => a.priority - b.priority): a stable sort
RECURSIVE SortByPriority(_)
SortByPriority(logos) ==
  IF logos = <<>> THEN <<>>
  ELSE InsertByPriority(SortByPriority(SubSeq(logos, 1, Len(logos) - 1)),
                        logos[Len(logos)])

\* addLogoToManifest(manifest, logoMetadata) at time t
AddLogoToManifest(m, logoMetadata, t) ==
  [logos |-> SortByPriority(Append(FilterOut(m.logos, logoMetadata.id),
                                   logoMetadata)),
   version |-> t,
   lastModifiedBy |-> "Admin Web Interface"]

\* the manifests addLogoToManifest is given: logos with pairwise distinct
\* ids, in any order
ManifestsOfDistinctIds ==
  {[logos |-> l, version |-> 0, lastModifiedBy |-> "none"] :
     l \in {q \in UNION {[1..n -> Logos] : n \in 0..MaxLogos} : UniqueIds(q)}}

ManifestInit ==
  /\ NoCompletionInit
  /\ NoSettingsInit
  /\ NoDeviceUpdateInit
  /\ NoTokenInit
  /\ NoBrokerInit
  /\ NoUploadInit
  /\ NoDeviceInit
  /\ NoApiInit
  /\ manifest \in ManifestsOfDistinctIds
  /\ added = [logo |-> NoLogo, hadId |-> FALSE, lenBefore |-> 0]

addLogoToManifest(logoMetadata) ==
  /\ \E t \in manifest.version..MaxTime :
       manifest' = AddLogoToManifest(manifest, logoMetadata, t)
  /\ added' = [logo |-> logoMetadata,
               hadId |-> logoMetadata.id \in Ids(manifest.logos),
               lenBefore |-> Len(manifest.logos)]
  /\ UNCHANGED otherThanManifest

\* completeUploadWorkflow starts from the current manifest with its logos
\* emptied: currentManifest.logos = []
emptyLogos ==
  /\ manifest.logos # <<>>
  /\ manifest' = [manifest EXCEPT !.logos = <<>>]
  /\ added' = [logo |-> NoLogo, hadId |-> FALSE, lenBefore |-> 0]
  /\ UNCHANGED otherThanManifest

ManifestNext ==
  \/ \E logo \in Logos : addLogoToManifest(logo)
  \/ emptyLogos

SpecManifest == ManifestInit /\ [][ManifestNext]_vars

\* C3: from a manifest of pairwise distinct logo ids, after any sequence of
\* addLogoToManifest calls, no two logos share an id; the logo just added is
\* the one entry of its id, and adding an id already present replaces the old
\* entry (the list does not grow).
C3_LogoIdsUnique ==
  /\ UniqueIds(manifest.logos)
  /\ added.logo # NoLogo =>
       /\ \E i \in 1..Len(manifest.logos) : manifest.logos[i] = added.logo
       /\ Len(manifest.logos) =
            IF added.hadId THEN added.lenBefore ELSE added.lenBefore + 1

\* an id already in a manifest of several logos was added again
C3_Witness ==
  /\ added.logo # NoLogo /\ added.hadId
  /\ Len(manifest.logos) >= 2

(***************************************************************************)
(* GitHubUploadService.makeApiRequest(url, options, retries = 3)           *)
(***************************************************************************)
DefaultRetries == 3
RateLimitDelay == 5000
RetryDelay == 2000

\* what one fetch can come to: a response (by status), or a rejection
FetchOutcomes ==
  {"200", "401", "403 rate limit", "403", "404", "500", "network error"}

\* the error thrown inside the try for a response that is not ok; "" when
\* none is thrown there
ThrownFor(outcome, att, n) ==
  CASE outcome = "401" -> "Authentication failed - Invalid token"
    [] outcome = "403" -> "Access denied - Check token permissions"
    [] outcome = "404" -> "Repository or resource not found"
    [] outcome = "network error" -> "Failed to fetch"
    [] outcome = "500" /\ att = n -> "Request failed: 500"
    [] OTHER -> ""

\* the catch rethrows: attempt === retries || message.includes("Authentication failed")
Rethrown(message, att, n) ==
  att = n \/ message = "Authentication failed - Invalid token"

\* the for loop's test: attempt <= retries
LoopContinues_OneMore(att, n) == att <= n + 1

LoopContinues(att, n) == att <= n

ApiInit ==
  /\ NoCompletionInit
  /\ NoSettingsInit
  /\ NoDeviceUpdateInit
  /\ NoTokenInit
  /\ NoBrokerInit
  /\ NoUploadInit
  /\ NoDeviceInit
  /\ NoManifestInit
  /\ NoApiInit

\* the call, to its first await
makeApiRequest(n) ==
  /\ apiPc = "idle"
  /\ retries' = n
  /\ attempt' = 1
  /\ IF LoopContinues(1, n)
     THEN /\ apiPc' = "fetch"
          /\ fetches' = 1
          /\ UNCHANGED apiResult
     ELSE /\ apiPc' = "done"
          /\ apiResult' = "return undefined"
          /\ UNCHANGED fetches
  /\ UNCHANGED <<delayMs, apiResponses>>
  /\ UNCHANGED otherThanApi

\* the awaited fetch settles: the loop body to its next await or its end
fetchSettles(outcome) ==
  /\ apiPc = "fetch"
  /\ apiResponses' = Append(apiResponses, outcome)
  /\ IF outcome = "200"
     THEN /\ apiPc' = "done"
          /\ apiResult' = "return response ok"
          /\ UNCHANGED delayMs
     ELSE IF outcome = "403 rate limit"
     THEN /\ apiPc' = "delay"
          /\ delayMs' = RateLimitDelay * attempt
          /\ UNCHANGED apiResult
     ELSE IF ThrownFor(outcome, attempt, retries) # ""
             /\ Rethrown(ThrownFor(outcome, attempt, retries), attempt, retries)
     THEN /\ apiPc' = "done"
          /\ apiResult' = "throw " \o ThrownFor(outcome, attempt, retries)
          /\ UNCHANGED delayMs
     ELSE /\ apiPc' = "delay"
          /\ delayMs' = RetryDelay * attempt
          /\ UNCHANGED apiResult
  /\ UNCHANGED <<retries, attempt, fetches>>
  /\ UNCHANGED otherThanApi

\* the awaited delay elapses: attempt++, the loop test, the next fetch
delayElapses ==
  /\ apiPc = "delay"
  /\ attempt' = attempt + 1
  /\ delayMs' = 0
  /\ IF LoopContinues(attempt + 1, retries)
     THEN /\ apiPc' = "fetch"
          /\ fetches' = fetches + 1
          /\ UNCHANGED apiResult
     ELSE /\ apiPc' = "done"
          /\ apiResult' = "return undefined"
          /\ UNCHANGED fetches
  /\ UNCHANGED <<retries, apiResponses>>
  /\ UNCHANGED otherThanApi

ApiNext ==
  \/ \E n \in 1..MaxRetries : makeApiRequest(n)
  \/ \E outcome \in FetchOutcomes : fetchSettles(outcome)
  \/ delayElapses

\* every fetch settles and every timer fires
SpecApi == ApiInit /\ [][ApiNext]_vars /\ WF_vars(ApiNext)

\* C4: makeApiRequest with the default retries (3) ends, and makes at most 3
\* fetch calls, whatever each fetch comes to.
C4_AtMostThreeFetches ==
  /\ [](retries = DefaultRetries => fetches <= DefaultRetries)
  /\ [](apiPc = "done" /\ retries = DefaultRetries => Len(apiResponses) <= DefaultRetries)
  /\ (apiPc # "idle" /\ retries = DefaultRetries) ~> (apiPc = "done")

\* a call with the default retries ended after its third fetch
C4_Witness ==
  /\ retries = DefaultRetries
  /\ apiPc = "done"
  /\ fetches = DefaultRetries

\* C14: every makeApiRequest call that ends has returned a response whose ok
\* flag is true or has thrown; it never returns without a response.
C14_ResponseOrThrow ==
  apiPc = "done" => apiResult # "return undefined"

(***************************************************************************)
(* GitHubService and GitHubUploadService: initialize, uploadLogo; and      *)
(* LogoSyncService.uploadCleanedManifest on top of either.                 *)
(***************************************************************************)
GitHubServices == {"GitHubService", "GitHubUploadService"}
Tokens == {"", "ghp_a", "ghp_b"}

\* if (!this.isAuthenticated) throw new Error("GitHub service not authenticated")
NotAuthenticated_Never(flag) == FALSE

NotAuthenticated(flag) == ~flag

UploadInit ==
  /\ NoCompletionInit
  /\ NoSettingsInit
  /\ NoDeviceUpdateInit
  /\ NoTokenInit
  /\ NoBrokerInit
  /\ NoDeviceInit
  /\ NoManifestInit
  /\ NoApiInit
  /\ ghService \in GitHubServices
  /\ githubGiven \in BOOLEAN
  /\ token = Null
  /\ isAuthenticated = FALSE
  /\ initCalls = EmptyBag
  /\ wf = NoWorkflow
  /\ upLast = UpReport("none", FALSE, "none", FALSE)

\* initialize(token) to the await of testAuthentication, which returns false
\* at once for an empty token and otherwise fetches /user
initialize(t) ==
  /\ ghService \in GitHubServices
  /\ token' = t
  /\ IF t = ""
     THEN /\ upLast' = UpReport("initialize", isAuthenticated, "false", FALSE)
          /\ UNCHANGED initCalls
     ELSE /\ BagCardinality(initCalls) < MaxInits
          /\ initCalls' = initCalls (+) SetToBag({t})
          /\ upLast' = UpReport("initialize", isAuthenticated, "pending", TRUE)
  /\ UNCHANGED <<ghService, githubGiven, isAuthenticated, wf>>
  /\ UNCHANGED otherThanUpload

\* testAuthentication answers
initializeSettles(authTest) ==
  /\ ghService \in GitHubServices
  /\ \E t \in BagToSet(initCalls) :
       initCalls' = initCalls (-) SetToBag({t})
  /\ IF authTest
     THEN /\ isAuthenticated' = TRUE
          /\ upLast' = UpReport("initialize.settled", isAuthenticated, "true",
                                FALSE)
     ELSE /\ UNCHANGED isAuthenticated
          /\ upLast' = UpReport("initialize.settled", isAuthenticated, "false",
                                FALSE)
  /\ UNCHANGED <<ghService, githubGiven, token, wf>>
  /\ UNCHANGED otherThanUpload

\* what an upload that passed the authentication test comes to: the file
\* cannot be read (no request yet), or the PUT succeeds or fails
UploadOutcomes == {"read error", "uploaded", "upload failed"}

\* uploadLogo(file, metadata), called on its own
uploadLogo(outcome) ==
  /\ ghService \in GitHubServices
  /\ IF NotAuthenticated(isAuthenticated)
     THEN upLast' = UpReport("uploadLogo", isAuthenticated,
                             "throw GitHub service not authenticated", FALSE)
     ELSE upLast' = UpReport("uploadLogo", isAuthenticated,
                             IF outcome = "uploaded" THEN "return logoMetadata"
                                                     ELSE "throw " \o outcome,
                             outcome # "read error")
  /\ UNCHANGED <<ghService, githubGiven, token, isAuthenticated, initCalls, wf>>
  /\ UNCHANGED otherThanUpload

\* LogoSyncService.uploadCleanedManifest(cleanedManifest)
uploadCleanedManifest(ok) ==
  /\ ghService \in GitHubServices
  /\ IF ~githubGiven \/ NotAuthenticated(isAuthenticated)
     THEN upLast' = UpReport("uploadCleanedManifest",
                             githubGiven /\ isAuthenticated,
                             "throw GitHub service not authenticated", FALSE)
     ELSE upLast' = UpReport("uploadCleanedManifest",
                             githubGiven /\ isAuthenticated,
                             IF ok THEN "return true"
                                   ELSE "throw Manifest upload failed",
                             TRUE)
  /\ UNCHANGED <<ghService, githubGiven, token, isAuthenticated, initCalls, wf>>
  /\ UNCHANGED otherThanUpload

UploadNext ==
  \/ \E t \in Tokens : initialize(t)
  \/ \E authTest \in BOOLEAN : initializeSettles(authTest)
  \/ \E outcome \in UploadOutcomes : uploadLogo(outcome)
  \/ \E ok \in BOOLEAN : uploadCleanedManifest(ok)

SpecUpload == UploadInit /\ [][UploadNext]_vars

\* C5: uploadLogo called while isAuthenticated is false throws 'GitHub
\* service not authenticated' and issues no GitHub request; and
\* LogoSyncService.uploadCleanedManifest uploads nothing (issues no request,
\* throws the same error) unless its GitHub service is there and authenticated.
C5_UploadNeedsAuthentication ==
  (upLast.op \in {"uploadLogo", "uploadCleanedManifest"} /\ ~upLast.authed) =>
     /\ upLast.result = "throw GitHub service not authenticated"
     /\ ~upLast.requested

\* an upload was refused after an initialize that failed
C5_Witness ==
  /\ upLast.op = "uploadLogo"
  /\ ~upLast.authed
  /\ token \in Tokens \ {""}

\* C15: once an initialize(token) call has returned false the service is not
\* authenticated: isAuthenticated, which getStatus() reports as authenticated
\* and uploadLogo tests, is false.
C15_FailedInitializeUnauthenticated ==
  (upLast.op \in {"initialize", "initialize.settled"} /\ upLast.result = "false")
    => ~isAuthenticated

(***************************************************************************)
(* completeUploadWorkflow(files) of GitHubService and GitHubUploadService: *)
(* one call, step by step, with initialize running beside it.              *)
(***************************************************************************)
\* the workflow file names triggerWorkflow tries in turn
WorkflowNames == 3

\* the logoMetadata uploadLogo returns for a file
LogoOf(id) == [id |-> id, priority |-> 1, githubSha |-> "sha1"]

\* if (results.length === 0) throw new Error("No files uploaded successfully")
NoneUploaded_Never(results) == FALSE

NoneUploaded(results) == Len(results) = 0

\* for (const logoMetadata of results) currentManifest = addLogoToManifest(...)
RECURSIVE AddAll(_, _, _)
AddAll(m, results, t) ==
  IF results = <<>> THEN m
  ELSE AddAll(AddLogoToManifest(m, Head(results), t), Tail(results), t)

\* what getCurrentManifest can answer: the default manifest or a stored one
CurrentManifests == {m \in ManifestsOfDistinctIds : Len(m.logos) <= 1}

\* the call, to the first await of uploadLogoBatch
completeUploadWorkflow(n) ==
  /\ ghService \in GitHubServices
  /\ wf.pc \in {"idle", "done"}
  /\ wf' = [NoWorkflow EXCEPT !.pc = "batch", !.n = n]
  /\ upLast' = UpReport("completeUploadWorkflow", isAuthenticated, "pending",
                        FALSE)
  /\ UNCHANGED <<ghService, githubGiven, token, isAuthenticated, initCalls>>
  /\ UNCHANGED otherThanUpload

\* uploadLogoBatch: await this.uploadLogo(files[i]) comes to its end
batchUploadLogo(id, outcome) ==
  /\ wf.pc = "batch"
  /\ wf.i < wf.n
  /\ IF ~NotAuthenticated(isAuthenticated) /\ outcome = "uploaded"
     THEN wf' = [wf EXCEPT !.i = @ + 1, !.results = Append(@, LogoOf(id))]
     ELSE wf' = [wf EXCEPT !.i = @ + 1, !.errors = @ + 1]
  /\ upLast' = UpReport("uploadLogoBatch", isAuthenticated,
                        IF NotAuthenticated(isAuthenticated)
                        THEN "throw GitHub service not authenticated"
                        ELSE IF outcome = "uploaded" THEN "return logoMetadata"
                        ELSE "throw " \o outcome,
                        isAuthenticated /\ outcome # "read error")
  /\ UNCHANGED <<ghService, githubGiven, token, isAuthenticated, initCalls>>
  /\ UNCHANGED otherThanUpload

\* uploadLogoBatch returns {results, errors}; the call throws or goes on to
\* await getCurrentManifest
batchReturns ==
  /\ wf.pc = "batch"
  /\ wf.i = wf.n
  /\ IF NoneUploaded(wf.results)
     THEN /\ wf' = [wf EXCEPT !.pc = "done",
                              !.result = "throw No files uploaded successfully"]
          /\ upLast' = UpReport("completeUploadWorkflow.batch", isAuthenticated,
                                "throw No files uploaded successfully", FALSE)
     ELSE /\ wf' = [wf EXCEPT !.pc = "manifest"]
          /\ upLast' = UpReport("completeUploadWorkflow.batch", isAuthenticated,
                                "pending", TRUE)
  /\ UNCHANGED <<ghService, githubGiven, token, isAuthenticated, initCalls>>
  /\ UNCHANGED otherThanUpload

\* getCurrentManifest answers (the stored manifest or the default one); its
\* logos are emptied, the results added, and uploadManifest begins
manifestLoaded(m) ==
  /\ wf.pc = "manifest"
  /\ \E t \in 0..MaxTime :
       wf' = [wf EXCEPT !.pc = "put",
                        !.logos = AddAll([m EXCEPT !.logos = <<>>],
                                         wf.results, t).logos]
  /\ upLast' = UpReport("completeUploadWorkflow.manifest", isAuthenticated,
                        "pending", TRUE)
  /\ UNCHANGED <<ghService, githubGiven, token, isAuthenticated, initCalls>>
  /\ UNCHANGED otherThanUpload

\* what uploadManifest comes to: btoa throws before any request, or the PUT
\* of manifest.json is answered ok or not ok, or rejects
ManifestOutcomes == {"encode error", "ok", "not ok", "network error"}

manifestPut(outcome) ==
  /\ wf.pc = "put"
  /\ IF outcome = "ok"
     THEN wf' = [wf EXCEPT !.pc = "workflow", !.manifestPuts = @ + 1,
                           !.manifestOk = TRUE]
     ELSE wf' = [wf EXCEPT !.pc = "done",
                           !.manifestPuts =
                              IF outcome = "encode error" THEN @ ELSE @ + 1,
                           !.result = "throw Manifest upload failed"]
  /\ upLast' = UpReport("uploadManifest", isAuthenticated,
                        IF outcome = "ok" THEN "return"
                        ELSE "throw Manifest upload failed",
                        outcome # "encode error")
  /\ UNCHANGED <<ghService, githubGiven, token, isAuthenticated, initCalls>>
  /\ UNCHANGED otherThanUpload

\* triggerWorkflow: one dispatch POST is answered; a response that is not ok
\* moves on to the next workflow name, a rejection ends the attempts
WorkflowOutcomes == {"ok", "not ok", "network error"}

workflowPost(outcome) ==
  /\ wf.pc = "workflow"
  /\ IF outcome = "not ok" /\ wf.workflowPosts + 1 < WorkflowNames
     THEN wf' = [wf EXCEPT !.workflowPosts = @ + 1]
     ELSE wf' = [wf EXCEPT !.workflowPosts = @ + 1, !.pc = "done",
                           !.result = "return success"]
  /\ upLast' = UpReport("triggerWorkflow", isAuthenticated,
                        IF outcome = "ok" THEN "true"
                        ELSE IF outcome = "not ok"
                                /\ wf.workflowPosts + 1 < WorkflowNames
                        THEN "pending" ELSE "false",
                        TRUE)
  /\ UNCHANGED <<ghService, githubGiven, token, isAuthenticated, initCalls>>
  /\ UNCHANGED otherThanUpload

WorkflowInit ==
  /\ UploadInit
  /\ githubGiven = FALSE

WorkflowNext ==
  \/ \E t \in Tokens : initialize(t)
  \/ \E authTest \in BOOLEAN : initializeSettles(authTest)
  \/ \E n \in 0..MaxFiles : completeUploadWorkflow(n)
  \/ \E id \in LogoIds, outcome \in UploadOutcomes : batchUploadLogo(id, outcome)
  \/ batchReturns
  \/ \E m \in CurrentManifests : manifestLoaded(m)
  \/ \E outcome \in ManifestOutcomes : manifestPut(outcome)
  \/ \E outcome \in WorkflowOutcomes : workflowPost(outcome)

SpecWorkflow == WorkflowInit /\ [][WorkflowNext]_vars

\* C6: in completeUploadWorkflow a manifest PUT is issued only when every
\* file of the batch has been attempted and at least one upload succeeded; a
\* workflow dispatch is posted only when the manifest upload succeeded; and a
\* call in which no file uploaded has thrown 'No files uploaded successfully'
\* by the end of the batch, with no manifest PUT and no workflow dispatch.
C6_ManifestThenWorkflow ==
  /\ (wf.pc \in {"put", "workflow"} \/ wf.manifestPuts > 0) =>
       (wf.i = wf.n /\ Len(wf.results) >= 1)
  /\ (wf.pc = "workflow" \/ wf.workflowPosts > 0) =>
       (wf.manifestOk /\ wf.manifestPuts > 0)
  /\ (wf.pc \notin {"idle", "batch"} /\ Len(wf.results) = 0) =>
       /\ wf.pc = "done"
       /\ wf.result = "throw No files uploaded successfully"
       /\ wf.manifestPuts = 0
       /\ wf.workflowPosts = 0

\* a call in which one file failed and another uploaded ran to the workflow
\* dispatch
C6_Witness ==
  /\ wf.pc = "done"
  /\ wf.result = "return success"
  /\ wf.errors > 0
  /\ wf.workflowPosts > 0

(***************************************************************************)
(* MqttBroker: connect, publish, subscribe, disconnect, and the handlers   *)
(* setupEventHandlers puts on every client connect() creates.  A client    *)
(* is "connecting", "connected", "offline" (closed, about to reconnect) or *)
(* "ended"; a client that was ended emits no further event, and its        *)
(* options are no longer of use.                                           *)
(***************************************************************************)
maxReconnectAttempts == 10

\* periods are counted in 1/256 ms, which holds 1000 * 1.5^n exactly as long
\* as it stays under the cap
PerMs == 256
BasePeriod == 1000
MaxPeriod == 30000

\* 1000 * Math.pow(1.5, n), without the cap
RECURSIVE ReconnectPeriod_Uncapped(_)
ReconnectPeriod_Uncapped(n) ==
  IF n = 0 THEN BasePeriod * PerMs
  ELSE (ReconnectPeriod_Uncapped(n - 1) * 3) \div 2

\* Math.min(1000 * Math.pow(1.5, this.reconnectAttempts), 30000)
RECURSIVE ReconnectPeriod(_)
ReconnectPeriod(n) ==
  IF n = 0 THEN BasePeriod * PerMs
  ELSE IF (ReconnectPeriod(n - 1) * 3) \div 2 >= MaxPeriod * PerMs
       THEN MaxPeriod * PerMs
       ELSE (ReconnectPeriod(n - 1) * 3) \div 2

\* if (!this.client)
NoClient_Never(c) == FALSE

NoClient(c) == c = 0

\* mqtt.connect has made these clients
Created == {c \in 1..MaxClients : mqttClients[c] # "none"}

\* publishStatus(status) hands a message to this.client
StatusPublished(isConnected, c) == isConnected /\ ~NoClient(c)

BrokerInit ==
  /\ NoCompletionInit
  /\ NoSettingsInit
  /\ NoDeviceUpdateInit
  /\ NoTokenInit
  /\ NoDeviceInit
  /\ NoManifestInit
  /\ NoApiInit
  /\ NoUploadInit
  /\ BrokerConstructed

\* connect(), also reached through testConnection(): a new client replaces
\* this.client, whatever that held; mqtt.connect may throw instead
MB_connect(thrown) ==
  /\ IF thrown
     THEN /\ connectionStatus' = "error"
          /\ statusError' = "mqtt.connect failed"
          /\ brLast' = BrReport("connect", client # 0, "throw", FALSE)
          /\ UNCHANGED <<client, mqttClients, reconnectPeriod>>
     ELSE /\ \E c \in (1..MaxClients) \ Created :
               /\ c = Cardinality(Created) + 1
               /\ client' = c
               /\ mqttClients' = [mqttClients EXCEPT ![c] = "connecting"]
               /\ reconnectPeriod' =
                    [reconnectPeriod EXCEPT
                       ![c] = ReconnectPeriod(reconnectAttempts)]
          /\ connectionStatus' = "connecting"
          /\ statusError' = Null
          /\ brLast' = BrReport("connect", client # 0, "pending", FALSE)
  /\ sinceConnect' = "connected"
  /\ UNCHANGED <<connected, reconnectAttempts, isReconnecting>>
  /\ UNCHANGED otherThanBroker

\* the "connect" handlers of client c
MB_onConnect(c) ==
  /\ mqttClients[c] = "connecting"
  /\ mqttClients' = [mqttClients EXCEPT ![c] = "connected"]
  /\ connected' = TRUE
  /\ reconnectAttempts' = 0
  /\ isReconnecting' = FALSE
  /\ connectionStatus' = "connected"
  /\ statusError' = Null
  /\ brLast' = BrReport("on connect", client # 0, "none",
                        StatusPublished(TRUE, client))
  /\ UNCHANGED <<client, sinceConnect>>
  /\ UNCHANGED reconnectPeriod
  /\ UNCHANGED otherThanBroker

\* the "close" handler of client c
MB_onClose(c) ==
  /\ mqttClients[c] \in {"connecting", "connected"}
  /\ mqttClients' = [mqttClients EXCEPT ![c] = "offline"]
  /\ connected' = FALSE
  /\ connectionStatus' = "disconnected"
  /\ statusError' = Null
  /\ brLast' = BrReport("on close", client # 0, "none", FALSE)
  /\ UNCHANGED <<client, reconnectAttempts, isReconnecting, sinceConnect>>
  /\ UNCHANGED reconnectPeriod
  /\ UNCHANGED otherThanBroker

\* the "disconnect" handler of client c: the broker sent DISCONNECT
MB_onDisconnect(c) ==
  /\ mqttClients[c] = "connected"
  /\ connected' = FALSE
  /\ connectionStatus' = "disconnected"
  /\ statusError' = Null
  /\ brLast' = BrReport("on disconnect", client # 0, "none", FALSE)
  /\ UNCHANGED <<client, mqttClients, reconnectAttempts, isReconnecting,
                 sinceConnect>>
  /\ UNCHANGED reconnectPeriod
  /\ UNCHANGED otherThanBroker

\* the "error" handlers of client c
MB_onError(c) ==
  /\ mqttClients[c] \in {"connecting", "connected"}
  /\ connectionStatus' = "error"
  /\ statusError' = "client error"
  /\ brLast' = BrReport("on error", client # 0, "none", FALSE)
  /\ UNCHANGED <<client, mqttClients, connected, reconnectAttempts,
                 isReconnecting, sinceConnect>>
  /\ UNCHANGED reconnectPeriod
  /\ UNCHANGED otherThanBroker

\* the "reconnect" handler of client c, disconnect() included
MB_onReconnect(c) ==
  /\ mqttClients[c] = "offline"
  /\ reconnectAttempts < MaxAttempts
  /\ reconnectAttempts' = reconnectAttempts + 1
  /\ isReconnecting' = TRUE
  /\ IF reconnectAttempts + 1 >= maxReconnectAttempts
     THEN /\ IF NoClient(client)
             THEN /\ mqttClients' = [mqttClients EXCEPT ![c] = "connecting"]
                  /\ UNCHANGED <<client, connected, sinceConnect, reconnectPeriod>>
             ELSE /\ mqttClients' = [mqttClients EXCEPT ![c] = "connecting",
                                                        ![client] = "ended"]
                  /\ client' = 0
                  /\ connected' = FALSE
                  /\ sinceConnect' = "disconnected"
                  /\ reconnectPeriod' = [reconnectPeriod EXCEPT ![client] = 0]
          /\ connectionStatus' = "error"
          /\ statusError' = "Max reconnection attempts reached"
          /\ brLast' = BrReport("on reconnect", client # 0, "none",
                                StatusPublished(connected, client))
     ELSE /\ mqttClients' = [mqttClients EXCEPT ![c] = "connecting"]
          /\ connectionStatus' = "reconnecting"
          /\ statusError' = Null
          /\ brLast' = BrReport("on reconnect", client # 0, "none", FALSE)
          /\ UNCHANGED <<client, connected, sinceConnect, reconnectPeriod>>
  /\ UNCHANGED otherThanBroker

\* publish(topic, message): ok is what the client's callback reports
MB_publish(ok) ==
  /\ IF NoClient(client)
     THEN brLast' = BrReport("publish", client # 0,
                             "reject MQTT client not available", FALSE)
     ELSE brLast' = BrReport("publish", client # 0,
                             IF ok THEN "resolve true" ELSE "reject error", TRUE)
  /\ UNCHANGED <<client, mqttClients, connected, connectionStatus, statusError,
                 reconnectAttempts, isReconnecting, sinceConnect>>
  /\ UNCHANGED reconnectPeriod
  /\ UNCHANGED otherThanBroker

\* subscribe(topic)
MB_subscribe(ok) ==
  /\ IF NoClient(client)
     THEN brLast' = BrReport("subscribe", client # 0,
                             "reject MQTT client not available", FALSE)
     ELSE brLast' = BrReport("subscribe", client # 0,
                             IF ok THEN "resolve true" ELSE "reject error", TRUE)
  /\ UNCHANGED <<client, mqttClients, connected, connectionStatus, statusError,
                 reconnectAttempts, isReconnecting, sinceConnect>>
  /\ UNCHANGED reconnectPeriod
  /\ UNCHANGED otherThanBroker

\* disconnect()
MB_disconnect ==
  /\ IF NoClient(client)
     THEN UNCHANGED <<client, mqttClients, connected, connectionStatus,
                      statusError, reconnectPeriod>>
     ELSE /\ mqttClients' = [mqttClients EXCEPT ![client] = "ended"]
          /\ client' = 0
          /\ connected' = FALSE
          /\ connectionStatus' = "disconnected"
          /\ statusError' = Null
          /\ reconnectPeriod' = [reconnectPeriod EXCEPT ![client] = 0]
  /\ sinceConnect' = "disconnected"
  /\ brLast' = BrReport("disconnect", client # 0, "none",
                        StatusPublished(connected, client))
  /\ UNCHANGED <<reconnectAttempts, isReconnecting>>
  /\ UNCHANGED otherThanBroker

BrokerNext ==
  \/ \E thrown \in BOOLEAN : MB_connect(thrown)
  \/ \E c \in 1..MaxClients : MB_onConnect(c)
  \/ \E c \in 1..MaxClients : MB_onClose(c)
  \/ \E c \in 1..MaxClients : MB_onDisconnect(c)
  \/ \E c \in 1..MaxClients : MB_onError(c)
  \/ \E c \in 1..MaxClients : MB_onReconnect(c)
  \/ \E ok \in BOOLEAN : MB_publish(ok)
  \/ \E ok \in BOOLEAN : MB_subscribe(ok)
  \/ MB_disconnect

SpecBroker == BrokerInit /\ [][BrokerNext]_vars

\* C7: reconnectAttempts never exceeds maxReconnectAttempts (10).
C7_ReconnectAttemptsBounded == reconnectAttempts <= maxReconnectAttempts

\* C10: publish and subscribe called while the broker holds no client reject
\* with 'MQTT client not available' and hand nothing to any client; and the
\* broker holds no client before the first connect() and from a disconnect()
\* until the next connect().
C10_NoClientRejects ==
  /\ (brLast.op \in {"publish", "subscribe"} /\ ~brLast.hadClient) =>
       /\ brLast.result = "reject MQTT client not available"
       /\ ~brLast.sent
  /\ sinceConnect \in {"never", "disconnected"} => client = 0
  /\ (brLast.op \in {"publish", "subscribe"}
        /\ sinceConnect \in {"never", "disconnected"}) => ~brLast.hadClient

\* publish was refused after a disconnect() that ended a client
C10_Witness ==
  /\ brLast.op = "publish"
  /\ ~brLast.hadClient
  /\ sinceConnect = "disconnected"
  /\ \E c \in 1..MaxClients : mqttClients[c] = "ended"

\* C13: the reconnectPeriod a client was made with in connect() is at most
\* 30000 ms, and no later step (a reconnect, error, close or connect event,
\* or another call) changes the period of a client as long as it is not
\* ended.
C13_ReconnectPeriodFixed ==
  /\ [](\A c \in Created : reconnectPeriod[c] <= MaxPeriod * PerMs)
  /\ [][\A c \in Created :
          mqttClients'[c] # "ended" => reconnectPeriod'[c] = reconnectPeriod[c]]_vars

\* a client made after nine or more reconnect attempts, with the capped
\* period, has itself closed and begun to reconnect
C13_Witness ==
  /\ brLast.op = "on reconnect"
  /\ \E c \in Created :
       /\ reconnectPeriod[c] = MaxPeriod * PerMs
       /\ mqttClients[c] = "connecting"
       /\ c = Cardinality(Created)

(***************************************************************************)
(* TokenManager: obfuscateToken, deobfuscateToken, storeToken,             *)
(* getStoredToken, clearToken, on an object whose machineId is given       *)
(* (generateMachineId itself reads its local const screen inside that      *)
(* const's initializer, line 365, and so throws instead of returning).     *)
(* Strings are sequences of char codes; base64 text is a sequence of       *)
(* sextets, Pad standing for "=".                                          *)
(***************************************************************************)
ThirtyDays == 30
Pad == 64

\* the char codes tokens are made of: "a", and one beyond Latin-1
TokenChars == {97, 321}
TokenStrings == UNION {[1..n -> TokenChars] : n \in 0..MaxTokenLen}
UserLogins == {Null, "octocat"}

\* generateMachineId(): Math.abs(hash).toString(16), here "a" and "1f"
MachineIds == {<<97>>, <<49, 102>>}
Times == {0, ThirtyDays, ThirtyDays + 1}

\* a ^ b
RECURSIVE Xor(_, _)
Xor(a, b) ==
  IF a = 0 /\ b = 0 THEN 0
  ELSE (((a % 2) + (b % 2)) % 2) + 2 * Xor(a \div 2, b \div 2)

\* result += String.fromCharCode(s.charCodeAt(i) ^ key.charCodeAt(i % key.length))
XorWithKey(str, key) ==
  [i \in 1..Len(str) |-> Xor(str[i], key[((i - 1) % Len(key)) + 1]) % 65536]

\* base64 of a binary string
RECURSIVE Base64(_)
Base64(bytes) ==
  IF Len(bytes) = 0 THEN <<>>
  ELSE IF Len(bytes) = 1
  THEN <<bytes[1] \div 4, (bytes[1] % 4) * 16, Pad, Pad>>
  ELSE IF Len(bytes) = 2
  THEN <<bytes[1] \div 4, ((bytes[1] % 4) * 16) + (bytes[2] \div 16),
         (bytes[2] % 16) * 4, Pad>>
  ELSE <<bytes[1] \div 4, ((bytes[1] % 4) * 16) + (bytes[2] \div 16),
         ((bytes[2] % 16) * 4) + (bytes[3] \div 64), bytes[3] % 64>>
       \o Base64(SubSeq(bytes, 4, Len(bytes)))

\* the bytes of base64 text without padding
RECURSIVE Base64Bytes(_)
Base64Bytes(sx) ==
  IF Len(sx) < 2 THEN <<>>
  ELSE IF Len(sx) = 2
  THEN <<(sx[1] * 4) + (sx[2] \div 16)>>
  ELSE IF Len(sx) = 3
  THEN <<(sx[1] * 4) + (sx[2] \div 16), ((sx[2] % 16) * 16) + (sx[3] \div 4)>>
  ELSE <<(sx[1] * 4) + (sx[2] \div 16), ((sx[2] % 16) * 16) + (sx[3] \div 4),
         ((sx[3] % 4) * 64) + sx[4]>>
       \o Base64Bytes(SubSeq(sx, 5, Len(sx)))

\* a call that threw
Thrown == <<-2>>

\* btoa(str): throws on a char code above 255
btoa(str) ==
  IF \E i \in 1..Len(str) : str[i] > 255 THEN Thrown ELSE Base64(str)

\* atob(text): one or two "=" are dropped from the end of text whose length
\* is a multiple of 4; a length of 4n + 1 or a remaining "=" throws
atob(text) ==
  LET n == Len(text)
      pads == IF n % 4 # 0 \/ n = 0 THEN 0
              ELSE IF text[n] = Pad /\ text[n - 1] = Pad THEN 2
              ELSE IF text[n] = Pad THEN 1 ELSE 0
      body == SubSeq(text, 1, n - pads)
  IN IF Len(body) % 4 = 1 \/ \E i \in 1..Len(body) : body[i] = Pad
     THEN Thrown
     ELSE Base64Bytes(body)

obfuscateToken(tok, key) == btoa(XorWithKey(tok, key))

deobfuscateToken(obfuscatedToken, key) ==
  IF atob(obfuscatedToken) = Thrown THEN NullToken
  ELSE XorWithKey(atob(obfuscatedToken), key)

\* new Date() > new Date(authData.expiresAt)
Expired_Never(t, expiresAt) == FALSE

Expired(t, expiresAt) == t > expiresAt

\* JSON.stringify(authData)
AuthData(tok, userLogin, key, t) ==
  [kind |-> "authData", token |-> tok, userLogin |-> userLogin,
   machineId |-> key, storedAt |-> t, expiresAt |-> t + ThirtyDays]

\* items JSON.parse or the field reads throw on; authData whose token atob
\* throws on
Unparsable == {[kind |-> "not json"], [kind |-> "json null"]}
Undecodable(key, t) == AuthData(<<1>>, Null, key, t)

TokenInit ==
  /\ NoCompletionInit
  /\ NoSettingsInit
  /\ NoDeviceUpdateInit
  /\ NoDeviceInit
  /\ NoManifestInit
  /\ NoApiInit
  /\ NoUploadInit
  /\ NoBrokerInit
  /\ storage = NoItem
  /\ machineId \in MachineIds
  /\ tmNow = 0
  /\ storedArgs = NoArgs
  /\ tmLast = TmReport("none", NoReturn, FALSE, FALSE, NoArgs)

\* storeToken(token, userLogin)
TM_storeToken(tok, userLogin) ==
  /\ IF obfuscateToken(tok, machineId) = Thrown
     THEN /\ tmLast' = TmReport("storeToken false", NoReturn, FALSE, FALSE,
                                NoArgs)
          /\ UNCHANGED storage
     ELSE /\ storage' = AuthData(obfuscateToken(tok, machineId), userLogin,
                                 machineId, tmNow)
          /\ tmLast' = TmReport("storeToken true", NoReturn, FALSE, FALSE,
                                NoArgs)
  /\ storedArgs' = [set |-> TRUE, token |-> tok, userLogin |-> userLogin,
                    machineId |-> machineId, at |-> tmNow]
  /\ UNCHANGED <<machineId, tmNow>>
  /\ UNCHANGED otherThanToken

\* getStoredToken(), clearToken() included
TM_getStoredToken ==
  /\ IF storage = NoItem
     THEN /\ tmLast' = TmReport("getStoredToken", NoReturn, FALSE, FALSE,
                                storedArgs)
          /\ UNCHANGED <<storage, storedArgs>>
     ELSE IF storage \in Unparsable
     THEN /\ storage' = NoItem
          /\ storedArgs' = NoArgs
          /\ tmLast' = TmReport("getStoredToken", NoReturn, FALSE, FALSE,
                                storedArgs)
     ELSE IF storage.machineId # machineId
             \/ Expired(tmNow, storage.expiresAt)
             \/ deobfuscateToken(storage.token, machineId) = NullToken
             \/ deobfuscateToken(storage.token, machineId) = <<>>
     THEN /\ storage' = NoItem
          /\ storedArgs' = NoArgs
          /\ tmLast' = TmReport("getStoredToken", NoReturn,
                                storage.machineId = machineId,
                                tmNow <= storage.expiresAt, storedArgs)
     ELSE /\ tmLast' = TmReport("getStoredToken",
                                [token |-> deobfuscateToken(storage.token,
                                                            machineId),
                                 userLogin |-> storage.userLogin,
                                 storedAt |-> storage.storedAt],
                                storage.machineId = machineId,
                                tmNow <= storage.expiresAt, storedArgs)
          /\ UNCHANGED <<storage, storedArgs>>
  /\ UNCHANGED <<machineId, tmNow>>
  /\ UNCHANGED otherThanToken

\* clearToken()
TM_clearToken ==
  /\ storage' = NoItem
  /\ storedArgs' = NoArgs
  /\ tmLast' = TmReport("clearToken", NoReturn, FALSE, FALSE, NoArgs)
  /\ UNCHANGED <<machineId, tmNow>>
  /\ UNCHANGED otherThanToken

\* the item is met by a TokenManager whose machineId is another one: the id
\* is computed from the user agent, screen, time zone and language
TM_otherMachine(key) ==
  /\ key # machineId
  /\ machineId' = key
  /\ tmLast' = TmReport("otherMachine", NoReturn, FALSE, FALSE, NoArgs)
  /\ UNCHANGED <<storage, tmNow, storedArgs>>
  /\ UNCHANGED otherThanToken

\* time passes
TM_tick(t) ==
  /\ t > tmNow
  /\ tmNow' = t
  /\ tmLast' = TmReport("tick", NoReturn, FALSE, FALSE, NoArgs)
  /\ UNCHANGED <<storage, machineId, storedArgs>>
  /\ UNCHANGED otherThanToken

\* something else writes the item: text that is not JSON, JSON without
\* fields, or authData whose token is not base64
TM_itemOverwritten(kind) ==
  /\ storage' = IF kind = "undecodable" THEN Undecodable(machineId, tmNow)
                ELSE [kind |-> kind]
  /\ storage' # storage
  /\ storedArgs' = NoArgs
  /\ tmLast' = TmReport("overwritten", NoReturn, FALSE, FALSE, NoArgs)
  /\ UNCHANGED <<machineId, tmNow>>
  /\ UNCHANGED otherThanToken

TokenNext ==
  \/ \E tok \in TokenStrings, userLogin \in UserLogins :
       TM_storeToken(tok, userLogin)
  \/ TM_getStoredToken
  \/ TM_clearToken
  \/ \E key \in MachineIds : TM_otherMachine(key)
  \/ \E t \in Times : TM_tick(t)
  \/ \E kind \in {"not json", "json null", "undecodable"} :
       TM_itemOverwritten(kind)

SpecToken == TokenInit /\ [][TokenNext]_vars

\* C8: getStoredToken returns a token only if the stored machineId equals
\* this machine's id and the time is not later than the stored expiresAt,
\* which storeToken sets 30 days after storing; whenever it returns null no
\* item remains under the storage key.
C8_TokenOnlyForMachineInTime ==
  /\ tmLast.op = "getStoredToken" =>
       /\ tmLast.returned # NoReturn =>
            (tmLast.sameMachine /\ tmLast.notExpired)
       /\ tmLast.returned = NoReturn => storage = NoItem
  /\ tmLast.op = "storeToken true" =>
       \/ storage.kind # "authData"
       \/ storage.expiresAt = storage.storedAt + ThirtyDays

\* an expired item of this machine was found and removed
C8_Witness ==
  /\ tmLast.op = "getStoredToken"
  /\ tmLast.returned = NoReturn
  /\ tmLast.sameMachine
  /\ ~tmLast.notExpired
  /\ tmLast.afterStore.set

\* C9: getStoredToken, called on the machine and within 30 days of a
\* storeToken(token, userLogin) whose item is still in place, returns that
\* token and that userLogin.
C9_RoundTrip ==
  (/\ tmLast.op = "getStoredToken"
   /\ tmLast.afterStore.set
   /\ tmLast.afterStore.machineId = machineId
   /\ tmNow <= tmLast.afterStore.at + ThirtyDays) =>
     /\ tmLast.returned.token = tmLast.afterStore.token
     /\ tmLast.returned.userLogin = tmLast.afterStore.userLogin

(***************************************************************************)
(* DeviceUpdateService: forceUpdate, completeUpdate, updateFailed,         *)
(* handleUpdateStatus, isUpdateInProgress.                                 *)
(***************************************************************************)
DeviceUpdateInit ==
  /\ NoCompletionInit
  /\ NoSettingsInit
  /\ NoDeviceInit
  /\ NoManifestInit
  /\ NoApiInit
  /\ NoUploadInit
  /\ NoBrokerInit
  /\ NoTokenInit
  /\ lastDetectedVersion = Null
  /\ forceInProgress = FALSE
  /\ progressTimers = FALSE
  /\ forcePc = "idle"
  /\ clientConnected \in BOOLEAN
  /\ updating = FALSE
  /\ duLast = DuReport("none", FALSE, FALSE)

\* window.MqttClient connects or drops
DU_clientConnects ==
  /\ ~clientConnected
  /\ clientConnected' = TRUE
  /\ UNCHANGED <<lastDetectedVersion, forceInProgress, progressTimers, forcePc,
                 updating, duLast>>
  /\ UNCHANGED otherThanDeviceUpdate

DU_clientDrops ==
  /\ clientConnected
  /\ clientConnected' = FALSE
  /\ UNCHANGED <<lastDetectedVersion, forceInProgress, progressTimers, forcePc,
                 updating, duLast>>
  /\ UNCHANGED otherThanDeviceUpdate

\* setDetectedVersion(version)
DU_setDetectedVersion(version) ==
  /\ lastDetectedVersion' = version
  /\ duLast' = DuReport("setDetectedVersion", FALSE, updating)
  /\ UNCHANGED <<forceInProgress, progressTimers, forcePc, clientConnected,
                 updating>>
  /\ UNCHANGED otherThanDeviceUpdate

\* forceUpdate(), to the await of showConfirmation; it returns before that
\* when the button is missing or no version was detected
DU_forceUpdate(buttonFound) ==
  /\ forcePc = "idle"
  /\ forcePc' = IF buttonFound /\ lastDetectedVersion # Null
                THEN "confirmation" ELSE "idle"
  /\ duLast' = DuReport("forceUpdate", FALSE, updating)
  /\ UNCHANGED <<lastDetectedVersion, forceInProgress, progressTimers,
                 clientConnected, updating>>
  /\ UNCHANGED otherThanDeviceUpdate

\* forceUpdate() from the answer to the confirmation: to the await of publish,
\* or through catch and finally when MQTT is not connected
DU_forceUpdateConfirmation(confirmed) ==
  /\ forcePc = "confirmation"
  /\ IF ~confirmed
     THEN /\ forcePc' = "idle"
          /\ UNCHANGED <<forceInProgress, progressTimers, updating>>
     ELSE IF ~clientConnected
     THEN /\ forcePc' = "idle"
          /\ forceInProgress' = FALSE
          /\ progressTimers' = FALSE
          /\ UNCHANGED updating
     ELSE /\ forcePc' = "publish"
          /\ forceInProgress' = TRUE
          /\ updating' = TRUE
          /\ UNCHANGED progressTimers
  /\ duLast' = DuReport("forceUpdate.confirmation", FALSE, updating)
  /\ UNCHANGED <<lastDetectedVersion, clientConnected>>
  /\ UNCHANGED otherThanDeviceUpdate

\* forceUpdate() after the await of publish: the timers are started when it
\* resolved and cleared when it rejected; finally clears updateInProgress
DU_forceUpdateSettles(ok) ==
  /\ forcePc = "publish"
  /\ forcePc' = "idle"
  /\ progressTimers' = ok
  /\ updating' = IF ok THEN updating ELSE FALSE
  /\ forceInProgress' = FALSE
  /\ duLast' = DuReport("forceUpdate.settled", FALSE, updating)
  /\ UNCHANGED <<lastDetectedVersion, clientConnected>>
  /\ UNCHANGED otherThanDeviceUpdate

\* completeUpdate()
DU_completeUpdate ==
  /\ progressTimers' = FALSE
  /\ updating' = FALSE
  /\ duLast' = DuReport("completeUpdate", FALSE, updating)
  /\ UNCHANGED <<lastDetectedVersion, forceInProgress, forcePc, clientConnected>>
  /\ UNCHANGED otherThanDeviceUpdate

\* updateFailed(error)
DU_updateFailed ==
  /\ progressTimers' = FALSE
  /\ updating' = FALSE
  /\ duLast' = DuReport("updateFailed", FALSE, updating)
  /\ UNCHANGED <<lastDetectedVersion, forceInProgress, forcePc, clientConnected>>
  /\ UNCHANGED otherThanDeviceUpdate

\* handleUpdateStatus(status): completed and failed go to completeUpdate and
\* updateFailed, any other state only touches the page
DU_handleUpdateStatus(state) ==
  /\ IF state \in {"completed", "failed"}
     THEN /\ progressTimers' = FALSE
          /\ updating' = FALSE
     ELSE UNCHANGED <<progressTimers, updating>>
  /\ duLast' = DuReport("handleUpdateStatus", FALSE, updating)
  /\ UNCHANGED <<lastDetectedVersion, forceInProgress, forcePc, clientConnected>>
  /\ UNCHANGED otherThanDeviceUpdate

\* isUpdateInProgress()
DU_isUpdateInProgress ==
  /\ duLast' = DuReport("isUpdateInProgress", forceInProgress, updating)
  /\ UNCHANGED <<lastDetectedVersion, forceInProgress, progressTimers, forcePc,
                 clientConnected, updating>>
  /\ UNCHANGED otherThanDeviceUpdate

DeviceUpdateNext ==
  \/ DU_clientConnects
  \/ DU_clientDrops
  \/ \E version \in Versions : DU_setDetectedVersion(version)
  \/ \E buttonFound \in BOOLEAN : DU_forceUpdate(buttonFound)
  \/ \E confirmed \in BOOLEAN : DU_forceUpdateConfirmation(confirmed)
  \/ \E ok \in BOOLEAN : DU_forceUpdateSettles(ok)
  \/ DU_completeUpdate
  \/ DU_updateFailed
  \/ \E state \in {"downloading", "completed", "failed"} :
       DU_handleUpdateStatus(state)
  \/ DU_isUpdateInProgress

SpecDeviceUpdate == DeviceUpdateInit /\ [][DeviceUpdateNext]_vars

\* C11: isUpdateInProgress() returns true exactly when force_update has been
\* sent and neither completeUpdate() nor updateFailed() was called since.
C11_InProgressUntilCompleted ==
  duLast.op = "isUpdateInProgress" => duLast.returned = duLast.underWay

(***************************************************************************)
(* DisplaySettingsService: the display mode through setDisplayMode,        *)
(* updateSetting, loadSettings, importSettings, syncSettings and           *)
(* resetToDefaults.  The page's displayMode element is missing, a select   *)
(* of the three modes (an assigned value that is no option leaves it       *)
(* empty), or a text input.                                                *)
(***************************************************************************)
validModes == {"loop", "fixed", "scheduled"}
ModeValues == validModes \cup {"slideshow", ""}
ElementKinds == {"missing", "select", "input"}

\* DEFAULT_SETTINGS.displayMode
DefaultMode == "loop"

\* validModes.includes(mode)
IsValidMode(mode) == mode \in validModes

\* key in this.currentSettings
SettingKeys == {"displayMode", "loopDuration"}

\* displayModeEl.value = mode (applySettingsToUI)
Applied(kind, mode, old) ==
  IF kind = "missing" THEN old
  ELSE IF kind = "select" /\ ~IsValidMode(mode) THEN ""
  ELSE mode

\* displayModeEl?.value || "loop" (syncSettings)
ReadFromUI(kind, value) ==
  IF kind = "missing" \/ value = "" THEN "loop" ELSE value

SettingsInit ==
  /\ NoCompletionInit
  /\ NoDeviceInit
  /\ NoManifestInit
  /\ NoApiInit
  /\ NoUploadInit
  /\ NoBrokerInit
  /\ NoTokenInit
  /\ NoDeviceUpdateInit
  /\ displayMode = DefaultMode
  /\ savedMode = NotSaved
  /\ displayModeEl \in ElementKinds
  /\ elValue = IF displayModeEl = "missing" THEN "" ELSE DefaultMode
  /\ resetPending = FALSE
  /\ dsLast = "none"

\* setDisplayMode(mode)
DS_setDisplayMode(mode) ==
  /\ displayMode' = IF IsValidMode(mode) THEN mode ELSE displayMode
  /\ dsLast' = "setDisplayMode"
  /\ UNCHANGED <<savedMode, displayModeEl, elValue, resetPending>>
  /\ UNCHANGED otherThanSettings

\* updateSetting(key, value)
DS_updateSetting(key, value) ==
  /\ displayMode' = IF key = "displayMode" THEN value ELSE displayMode
  /\ dsLast' = "updateSetting"
  /\ UNCHANGED <<savedMode, displayModeEl, elValue, resetPending>>
  /\ UNCHANGED otherThanSettings

\* loadSettings(): {...DEFAULT_SETTINGS, ...JSON.parse(saved)} when an item
\* is saved, then applySettingsToUI
DS_loadSettings ==
  /\ displayMode' = IF savedMode = NotSaved THEN displayMode ELSE savedMode
  /\ elValue' = Applied(displayModeEl, displayMode', elValue)
  /\ dsLast' = "loadSettings"
  /\ UNCHANGED <<savedMode, displayModeEl, resetPending>>
  /\ UNCHANGED otherThanSettings

\* syncSettings(), to its await: the settings are read from the page and saved
DS_syncSettings ==
  /\ displayMode' = ReadFromUI(displayModeEl, elValue)
  /\ savedMode' = displayMode'
  /\ dsLast' = "syncSettings"
  /\ UNCHANGED <<displayModeEl, elValue, resetPending>>
  /\ UNCHANGED otherThanSettings

\* importSettings(file) after the await of file.text(): the imported object
\* over the defaults, saved, applied to the page, then syncSettings to its
\* await; text that is not JSON throws and changes nothing.  "absent" is a
\* file without displayMode.
DS_importSettings(imported) ==
  /\ IF imported = NotJson
     THEN UNCHANGED <<displayMode, savedMode, elValue>>
     ELSE LET validated == IF imported = "absent" THEN DefaultMode ELSE imported
              shown == Applied(displayModeEl, validated, elValue)
          IN /\ elValue' = shown
             /\ displayMode' = ReadFromUI(displayModeEl, shown)
             /\ savedMode' = displayMode'
  /\ dsLast' = "importSettings"
  /\ UNCHANGED <<displayModeEl, resetPending>>
  /\ UNCHANGED otherThanSettings

\* resetToDefaults(), to the await of showConfirmation
DS_resetToDefaults ==
  /\ ~resetPending
  /\ resetPending' = TRUE
  /\ dsLast' = "resetToDefaults"
  /\ UNCHANGED <<displayMode, savedMode, displayModeEl, elValue>>
  /\ UNCHANGED otherThanSettings

\* resetToDefaults() from the answer: the defaults, applied to the page, then
\* syncSettings to its await
DS_resetToDefaultsConfirmation(confirmed) ==
  /\ resetPending
  /\ resetPending' = FALSE
  /\ IF confirmed
     THEN /\ elValue' = Applied(displayModeEl, DefaultMode, elValue)
          /\ displayMode' = ReadFromUI(displayModeEl, elValue')
          /\ savedMode' = displayMode'
     ELSE UNCHANGED <<displayMode, savedMode, elValue>>
  /\ dsLast' = "resetToDefaults.confirmation"
  /\ UNCHANGED displayModeEl
  /\ UNCHANGED otherThanSettings

\* the user changes the element on the page
DS_userInput(value) ==
  /\ displayModeEl # "missing"
  /\ displayModeEl = "select" => IsValidMode(value)
  /\ value # elValue
  /\ elValue' = value
  /\ dsLast' = "user input"
  /\ UNCHANGED <<displayMode, savedMode, displayModeEl, resetPending>>
  /\ UNCHANGED otherThanSettings

SettingsNext ==
  \/ \E mode \in ModeValues : DS_setDisplayMode(mode)
  \/ \E key \in SettingKeys \cup {"theme"}, value \in ModeValues :
       DS_updateSetting(key, value)
  \/ DS_loadSettings
  \/ DS_syncSettings
  \/ \E imported \in ModeValues \cup {"absent", NotJson} :
       DS_importSettings(imported)
  \/ DS_resetToDefaults
  \/ \E confirmed \in BOOLEAN : DS_resetToDefaultsConfirmation(confirmed)
  \/ \E value \in ModeValues : DS_userInput(value)

SpecSettings == SettingsInit /\ [][SettingsNext]_vars

\* C12: the display mode held by the service is always 'loop', 'fixed' or
\* 'scheduled'.
C12_DisplayModeValid == displayMode \in validModes

(***************************************************************************)
(* UpdateService with delayed completion: triggerUpdate, handleUpdateStatus *)
(* with its completion timers, handleResetStatus and cancel.  The accepted *)
(* updates are numbered in the order of their triggerUpdate calls; a timer *)
(* belongs to the update in progress when setTimeout started it.           *)
(***************************************************************************)
UpdateStatuses ==
  {"downloading", "update_success", "error", "no_updates",
   "no_updates_but_force_requested", "downgrade_requested",
   "download_complete", "checking", "up_to_date", "unknown"}

\* the cases of handleUpdateStatus that call setTimeout
DelayedStatuses ==
  {"no_updates_but_force_requested", "downgrade_requested",
   "download_complete", "up_to_date"}

\* the delay of the timer each of them starts, in ms
TimerDelay(status) ==
  CASE status = "no_updates_but_force_requested" -> 2000
    [] status = "downgrade_requested" -> 3000
    [] status = "download_complete" -> 3000
    [] status = "up_to_date" -> 2500

\* the accepted update this.updateInProgress stands for: triggerUpdate
\* refuses while it is set, so it is the latest one
InProgressUpdate == IF ucInProgress THEN ucUpdates ELSE 0

\* a timer started later expires before an earlier one only if its delay is
\* shorter
MayFire(i) ==
  /\ i \in 1..Len(ucTimers)
  /\ \A j \in 1..(i - 1) : ucTimers[j].delay > ucTimers[i].delay

Without(seq, i) == SubSeq(seq, 1, i - 1) \o SubSeq(seq, i + 1, Len(seq))

\* one more 'success' event for update u (counted up to two)
Succeeded(u) ==
  IF u = 0 THEN ucSuccesses
  ELSE [ucSuccesses EXCEPT ![u] = IF @ < 2 THEN @ + 1 ELSE @]

CompletionInit ==
  /\ NoDeviceInit
  /\ NoManifestInit
  /\ NoApiInit
  /\ NoUploadInit
  /\ NoBrokerInit
  /\ NoTokenInit
  /\ NoDeviceUpdateInit
  /\ NoSettingsInit
  /\ ucInProgress = FALSE
  /\ ucVersion = Null
  /\ ucConnected \in BOOLEAN
  /\ ucUpdates = 0
  /\ ucPublishes = {}
  /\ ucTimers = <<>>
  /\ ucSuccesses = [u \in 1..MaxUpdates |-> 0]
  /\ ucLast = UcReport("none", 0, 0, "none")

UC_mqttConnects ==
  /\ ~ucConnected
  /\ ucConnected' = TRUE
  /\ ucLast' = UcReport("mqtt connects", 0, InProgressUpdate, "none")
  /\ UNCHANGED <<ucInProgress, ucVersion, ucUpdates, ucPublishes, ucTimers,
                 ucSuccesses>>
  /\ UNCHANGED otherThanCompletion

UC_mqttDrops ==
  /\ ucConnected
  /\ ucConnected' = FALSE
  /\ ucLast' = UcReport("mqtt drops", 0, InProgressUpdate, "none")
  /\ UNCHANGED <<ucInProgress, ucVersion, ucUpdates, ucPublishes, ucTimers,
                 ucSuccesses>>
  /\ UNCHANGED otherThanCompletion

\* triggerUpdate(version) to the await of publish, or to its return
UC_triggerUpdate(version) ==
  /\ IF version \in BlankVersions
     THEN /\ ucLast' = UcReport("triggerUpdate", 0, InProgressUpdate,
                                "error INVALID_VERSION")
          /\ UNCHANGED <<ucInProgress, ucVersion, ucUpdates, ucPublishes>>
     ELSE IF ucInProgress
     THEN /\ ucLast' = UcReport("triggerUpdate", 0, InProgressUpdate,
                                "error UPDATE_IN_PROGRESS")
          /\ UNCHANGED <<ucInProgress, ucVersion, ucUpdates, ucPublishes>>
     ELSE /\ ucUpdates < MaxUpdates
          /\ ucUpdates' = ucUpdates + 1
          /\ ucVersion' = version
          /\ IF ucConnected
             THEN /\ ucInProgress' = TRUE
                  /\ ucPublishes' = ucPublishes \cup {ucUpdates + 1}
                  /\ ucLast' = UcReport("triggerUpdate", ucUpdates + 1,
                                        InProgressUpdate,
                                        "statusChange initializing")
             ELSE /\ ucInProgress' = FALSE
                  /\ ucLast' = UcReport("triggerUpdate", ucUpdates + 1,
                                        InProgressUpdate,
                                        "error TRIGGER_FAILED")
                  /\ UNCHANGED ucPublishes
  /\ UNCHANGED <<ucConnected, ucTimers, ucSuccesses>>
  /\ UNCHANGED otherThanCompletion

\* the publish update u awaits settles: triggerUpdate from there to its return
UC_triggerUpdateSettles(u, ok) ==
  /\ u \in ucPublishes
  /\ ucPublishes' = ucPublishes \ {u}
  /\ IF ok
     THEN /\ ucLast' = UcReport("triggerUpdate.settled", u, InProgressUpdate,
                                "statusChange downloading")
          /\ UNCHANGED ucInProgress
     ELSE /\ ucLast' = UcReport("triggerUpdate.settled", u, InProgressUpdate,
                                "error TRIGGER_FAILED")
          /\ ucInProgress' = FALSE
  /\ UNCHANGED <<ucVersion, ucConnected, ucUpdates, ucTimers, ucSuccesses>>
  /\ UNCHANGED otherThanCompletion

\* handleUpdateStatus(status)
UC_handleUpdateStatus(status) ==
  /\ IF ~ucInProgress
     THEN /\ ucLast' = UcReport("handleUpdateStatus", 0, InProgressUpdate,
                                "none")
          /\ UNCHANGED <<ucInProgress, ucTimers>>
     ELSE IF status \in {"downloading", "update_success", "checking"}
     THEN /\ ucLast' = UcReport("handleUpdateStatus", InProgressUpdate,
                                InProgressUpdate, "statusChange")
          /\ UNCHANGED <<ucInProgress, ucTimers>>
     ELSE IF status \in {"error", "no_updates"}
     THEN /\ ucLast' = UcReport("handleUpdateStatus", InProgressUpdate,
                                InProgressUpdate, "error")
          /\ ucInProgress' = FALSE
          /\ UNCHANGED ucTimers
     ELSE IF status \in DelayedStatuses
     THEN /\ Len(ucTimers) < MaxTimers
          /\ ucTimers' = Append(ucTimers,
                                [of |-> InProgressUpdate,
                                 delay |-> TimerDelay(status)])
          /\ ucLast' = UcReport("handleUpdateStatus", InProgressUpdate,
                                InProgressUpdate, "statusChange")
          /\ UNCHANGED ucInProgress
     ELSE /\ ucLast' = UcReport("handleUpdateStatus", InProgressUpdate,
                                InProgressUpdate, "none")
          /\ UNCHANGED <<ucInProgress, ucTimers>>
  /\ UNCHANGED <<ucVersion, ucConnected, ucUpdates, ucPublishes, ucSuccesses>>
  /\ UNCHANGED otherThanCompletion

\* the callback of the i-th pending timer runs
UC_timerFires(i) ==
  /\ MayFire(i)
  /\ ucTimers' = Without(ucTimers, i)
  /\ ucSuccesses' = Succeeded(ucTimers[i].of)
  /\ ucInProgress' = FALSE
  /\ ucLast' = UcReport("timer", ucTimers[i].of, InProgressUpdate, "success")
  /\ UNCHANGED <<ucVersion, ucConnected, ucUpdates, ucPublishes>>
  /\ UNCHANGED otherThanCompletion

\* handleResetStatus(status)
UC_handleResetStatus(status) ==
  /\ IF ucInProgress /\ status = "reset_success"
     THEN /\ ucSuccesses' = Succeeded(InProgressUpdate)
          /\ ucInProgress' = FALSE
          /\ ucVersion' = Null
          /\ ucLast' = UcReport("handleResetStatus", InProgressUpdate,
                                InProgressUpdate, "success")
     ELSE /\ ucLast' = UcReport("handleResetStatus", InProgressUpdate,
                                InProgressUpdate, "none")
          /\ UNCHANGED <<ucInProgress, ucVersion, ucSuccesses>>
  /\ UNCHANGED <<ucConnected, ucUpdates, ucPublishes, ucTimers>>
  /\ UNCHANGED otherThanCompletion

\* cancel()
UC_cancel ==
  /\ ucInProgress' = FALSE
  /\ ucVersion' = Null
  /\ ucLast' = UcReport("cancel", InProgressUpdate, InProgressUpdate, "none")
  /\ UNCHANGED <<ucConnected, ucUpdates, ucPublishes, ucTimers, ucSuccesses>>
  /\ UNCHANGED otherThanCompletion

CompletionNext ==
  \/ UC_mqttConnects
  \/ UC_mqttDrops
  \/ \E version \in Versions \cup BlankVersions : UC_triggerUpdate(version)
  \/ \E u \in 1..MaxUpdates, ok \in BOOLEAN : UC_triggerUpdateSettles(u, ok)
  \/ \E status \in UpdateStatuses : UC_handleUpdateStatus(status)
  \/ \E i \in 1..MaxTimers : UC_timerFires(i)
  \/ \E status \in {"reset_success", "resetting"} : UC_handleResetStatus(status)
  \/ UC_cancel

SpecCompletion == CompletionInit /\ [][CompletionNext]_vars

\* C16: every accepted triggerUpdate gets at most one 'success' event, and a
\* completion timer's callback runs (emitting 'success' and clearing
\* updateInProgress) only while the update that started it is in progress.
C16_SuccessOnlyWhileInProgress ==
  /\ \A u \in 1..MaxUpdates : ucSuccesses[u] <= 1
  /\ ucLast.op = "timer" => (ucLast.current # 0 /\ ucLast.of = ucLast.current)

=============================================================================
